---- MODULE Spec2Model ----
(***************************************************************************)
(* Greenlit: incident classification and routing engine.                   *)
(*                                                                         *)
(* A model of the signature ledger (src/agent/signatures.ts), the policy   *)
(* router (src/agent/routing.ts), the owner resolver                       *)
(* (src/agent/owner-routing.ts), the fingerprint normalisation and the     *)
(* ledger read-modify-write cycle of the triage command (src/index.ts).    *)
(*                                                                         *)
(* Strings are sequences of one-character strings, so that the regular     *)
(* expressions and prefix tests of the source are computed, not assumed.   *)
(***************************************************************************)
EXTENDS Integers, Sequences, FiniteSets, TLC

VARIABLES
    ledger,     \* SpecLedger: the in-memory SignatureLedger.records
    now,        \* the wall clock (Date.now()), in days
    config,     \* the GreenlitConfig fields the ledger reads
    ret,        \* the last ledger call: its arguments and what it returned
    routing,    \* SpecRoute: the input of routeFailure and what it returned
    fp,         \* SpecFingerprint: two failure contexts and their signatures
    own,        \* SpecOwner: the input of resolveOwnerAssignment and its outcome
    triage,     \* SpecTriage: the persisted ledger and two triage invocations
    run,        \* SpecRun: triage invocations made one after the other
    col,        \* SpecCollector: logs and failed jobs, and what the collector extracts
    agent       \* SpecVerify, SpecAgent: a verifyFix call, a runTriageAgent fix attempt

ledgerVars == <<ledger, now, config, ret>>
routeVars == <<routing>>
fpVars == <<fp>>
ownerVars == <<own>>
triageVars == <<triage>>
runVars == <<run>>
colVars == <<col>>
agentVars == <<agent>>
vars == <<ledgerVars, routeVars, fpVars, ownerVars, triageVars, runVars, colVars, agentVars>>

(***************************************************************************)
(* Bounds of the model.                                                    *)
(***************************************************************************)
MaxTime == 2        \* timestamps and ttl_days run over 0..MaxTime
MaxCount == 3       \* attempts is capped at MaxCount by the guards
MaxDepth == 2       \* blame_depth is drawn from 0..MaxDepth

(***************************************************************************)
(* Signature ledger: src/agent/signatures.ts                               *)
(***************************************************************************)
Sigs == {"sigA", "sigB"}
SignatureOutcome == {"fix", "report-only", "quarantine", "failed"}
NoVal == "<undefined>"      \* an optional field that is not set
Undefined == <<"<undefined>">>      \* an optional string (a sequence of characters) that is not set
NaN == -1                   \* Date.parse of a lastSeen that is no timestamp (timestamps are >= 0)
NoRecord == [signature |-> NoVal]   \* record: undefined
Owners == {"alice", "bob"}
Resolutions == {"patched"}
Urls == {"url1", "url2"}

\* interface SignatureRecord
SignatureRecord(sig, attempts, lastSeen, lastOutcome, lastOwner, lastResolution, threadUrl) ==
    [signature |-> sig, attempts |-> attempts, lastSeen |-> lastSeen,
     lastOutcome |-> lastOutcome, lastOwner |-> lastOwner,
     lastResolution |-> lastResolution, threadUrl |-> threadUrl]

EmptyLedger == [s \in {} |-> NoRecord]

\* Number.isNaN(lastSeen) || lastSeen < cutoff
IsExpired(record, ttlDays, t) ==
    LET cutoff == t - ttlDays
    IN  record.lastSeen = NaN \/ record.lastSeen < cutoff

\* a pruning that stamps the records it leaves with the time of the pruning
pruneExpiredSignatures_refresh(l, ttlDays, t) ==
    [s \in {k \in DOMAIN l : ~IsExpired(l[k], ttlDays, t)} |-> [l[s] EXCEPT !.lastSeen = t]]

\* pruneExpiredSignatures with the cutoff test written <= instead of <
pruneExpiredSignatures_lte(l, ttlDays, t) ==
    [s \in {k \in DOMAIN l :
               ~(l[k].lastSeen = NaN \/ l[k].lastSeen <= t - ttlDays)} |-> l[s]]

\* pruneExpiredSignatures(ledger, ttlDays): the records left in the ledger
pruneExpiredSignatures(l, ttlDays, t) ==
    [s \in {k \in DOMAIN l : ~IsExpired(l[k], ttlDays, t)} |-> l[s]]

\* shouldAttemptSignature with the attempts test written > instead of >=
shouldAttemptSignature_gt(sig, l, cfg, t) ==
    LET pruned == pruneExpiredSignatures(l, cfg.ttl_days, t)
    IN  IF sig \notin DOMAIN pruned
        THEN [ledger |-> pruned, allowed |-> TRUE, reason |-> NoVal, record |-> NoRecord]
        ELSE IF pruned[sig].attempts > cfg.max_attempts_per_signature
        THEN [ledger |-> pruned, allowed |-> FALSE, reason |-> "exceeded max attempts",
              record |-> pruned[sig]]
        ELSE IF pruned[sig].lastOutcome \in {"report-only", "quarantine"}
        THEN [ledger |-> pruned, allowed |-> FALSE, reason |-> "previously routed",
              record |-> pruned[sig]]
        ELSE [ledger |-> pruned, allowed |-> TRUE, reason |-> NoVal, record |-> pruned[sig]]

\* shouldAttemptSignature(signature, ledger, config): the pruned ledger and the
\* returned {allowed, reason, record}
shouldAttemptSignature(sig, l, cfg, t) ==
    LET pruned == pruneExpiredSignatures(l, cfg.ttl_days, t)
    IN  IF sig \notin DOMAIN pruned
        THEN [ledger |-> pruned, allowed |-> TRUE, reason |-> NoVal, record |-> NoRecord]
        ELSE IF pruned[sig].attempts >= cfg.max_attempts_per_signature
        THEN [ledger |-> pruned, allowed |-> FALSE, reason |-> "exceeded max attempts",
              record |-> pruned[sig]]
        ELSE IF pruned[sig].lastOutcome \in {"report-only", "quarantine"}
        THEN [ledger |-> pruned, allowed |-> FALSE, reason |-> "previously routed",
              record |-> pruned[sig]]
        ELSE [ledger |-> pruned, allowed |-> TRUE, reason |-> NoVal, record |-> pruned[sig]]

\* a detail is merged only when it is truthy: if (details?.owner) ...
Truthy(v) == v # NoVal /\ v # ""

\* updateSignatureLedger storing every detail that is given, an empty one too
updateSignatureLedger_overwrite(sig, l, outcome, details, t) ==
    LET record == IF sig \in DOMAIN l THEN l[sig]
                  ELSE SignatureRecord(sig, 0, t, outcome, NoVal, NoVal, NoVal)
        updated == [record EXCEPT
                      !.attempts = @ + 1,
                      !.lastSeen = t,
                      !.lastOutcome = outcome,
                      !.lastOwner = IF details.owner # NoVal THEN details.owner ELSE @,
                      !.lastResolution = IF details.resolution # NoVal
                                         THEN details.resolution ELSE @,
                      !.threadUrl = IF details.threadUrl # NoVal
                                    THEN details.threadUrl ELSE @]
    IN  [s \in DOMAIN l \cup {sig} |-> IF s = sig THEN updated ELSE l[s]]

\* updateSignatureLedger leaving the lastSeen of a stored record as it was
updateSignatureLedger_keepSeen(sig, l, outcome, details, t) ==
    LET record == IF sig \in DOMAIN l THEN l[sig]
                  ELSE SignatureRecord(sig, 0, t, outcome, NoVal, NoVal, NoVal)
        updated == [record EXCEPT
                      !.attempts = @ + 1,
                      !.lastOutcome = outcome,
                      !.lastOwner = IF Truthy(details.owner) THEN details.owner ELSE @,
                      !.lastResolution = IF Truthy(details.resolution)
                                         THEN details.resolution ELSE @,
                      !.threadUrl = IF Truthy(details.threadUrl)
                                    THEN details.threadUrl ELSE @]
    IN  [s \in DOMAIN l \cup {sig} |-> IF s = sig THEN updated ELSE l[s]]

\* updateSignatureLedger(signature, ledger, outcome, details)
updateSignatureLedger(sig, l, outcome, details, t) ==
    LET record == IF sig \in DOMAIN l THEN l[sig]
                  ELSE SignatureRecord(sig, 0, t, outcome, NoVal, NoVal, NoVal)
        updated == [record EXCEPT
                      !.attempts = @ + 1,
                      !.lastSeen = t,
                      !.lastOutcome = outcome,
                      !.lastOwner = IF Truthy(details.owner) THEN details.owner ELSE @,
                      !.lastResolution = IF Truthy(details.resolution)
                                         THEN details.resolution ELSE @,
                      !.threadUrl = IF Truthy(details.threadUrl)
                                    THEN details.threadUrl ELSE @]
    IN  [s \in DOMAIN l \cup {sig} |-> IF s = sig THEN updated ELSE l[s]]

\* setSignatureThread creating the record it does not find
setSignatureThread_creates(sig, l, threadUrl) ==
    [s \in DOMAIN l \cup {sig} |->
        IF s # sig THEN l[s]
        ELSE IF sig \in DOMAIN l THEN [l[sig] EXCEPT !.threadUrl = threadUrl]
        ELSE SignatureRecord(sig, 0, NaN, "failed", NoVal, NoVal, threadUrl)]

\* setSignatureThread(signature, ledger, threadUrl): not in signatures.ts as
\* given (its test imports it); written from the specification, section 4.4
setSignatureThread(sig, l, threadUrl) ==
    IF sig \in DOMAIN l THEN [l EXCEPT ![sig].threadUrl = threadUrl] ELSE l

(***************************************************************************)
(* SpecLedger: the ledger operations called in any order on one ledger.    *)
(***************************************************************************)
Details ==
    {[owner |-> NoVal, resolution |-> NoVal, threadUrl |-> NoVal],
     [owner |-> "alice", resolution |-> "patched", threadUrl |-> NoVal],
     [owner |-> "bob", resolution |-> "", threadUrl |-> NoVal],
     [owner |-> NoVal, resolution |-> NoVal, threadUrl |-> "url1"]}

\* lastSeen as stored: an ISO timestamp (0..MaxTime) or text that does not parse
LastSeenInputs == {NaN} \cup 0..MaxTime

\* Records a loaded ledger can hold for sigA: written by earlier runs (attempts
\* >= 1), or edited by hand (a lastSeen that does not parse).
SeedRecords ==
    {SignatureRecord("sigA", a, ls, o, d.owner, d.resolution, d.threadUrl) :
        a \in 1..(MaxCount - 1), ls \in LastSeenInputs, o \in SignatureOutcome,
        d \in {[owner |-> NoVal, resolution |-> NoVal, threadUrl |-> NoVal],
               [owner |-> "alice", resolution |-> "patched", threadUrl |-> "url2"]}}

\* sigB is a second fingerprint of the loaded ledger; it is never updated here
BystanderRecords ==
    {SignatureRecord("sigB", 1, 0, "fix", NoVal, NoVal, NoVal),
     SignatureRecord("sigB", MaxCount, MaxTime, "report-only", "bob", "patched", NoVal)}

InitLedgers ==
    {[s \in {} |-> NoRecord]}
    \cup {[s \in {"sigA"} |-> r] : r \in SeedRecords}
    \cup {[s \in {"sigB"} |-> r] : r \in BystanderRecords}
    \cup {[s \in Sigs |-> IF s = "sigA" THEN ra ELSE rb] :
            ra \in SeedRecords, rb \in BystanderRecords}

Configs ==
    [ttl_days : 1..MaxTime, max_attempts_per_signature : 1..(MaxCount - 1)]

NoCall == [op |-> "none"]

\* a record that blocks a fix attempt under cfg
Blocking(record, cfg) ==
    \/ record.attempts >= cfg.max_attempts_per_signature
    \/ record.lastOutcome \in {"report-only", "quarantine"}

\* the variables of the other specifications, at rest
LedgerIdle ==
    /\ ledger = EmptyLedger
    /\ now = 0
    /\ config = [ttl_days |-> 1, max_attempts_per_signature |-> 1]
    /\ ret = NoCall

RouteIdle == routing = [out |-> NoVal]

FingerprintIdle == fp = [out1 |-> <<>>, out2 |-> <<>>]

OwnerIdle == own = [out |-> [kind |-> "pending"]]

TriageIdle == triage = [disk |-> [kind |-> "missing"]]

RunIdle == run = [pc |-> "idle"]

CollectorIdle == col = [lines |-> <<>>]

AgentIdle == agent = [pc |-> "idle"]

LedgerInit ==
    /\ ledger \in InitLedgers
    /\ now = MaxTime
    /\ config \in Configs
    /\ ret = NoCall
    /\ RouteIdle
    /\ FingerprintIdle
    /\ OwnerIdle
    /\ TriageIdle
    /\ RunIdle
    /\ CollectorIdle
    /\ AgentIdle

PruneExpired(ttlDays) ==
    /\ ledger' = pruneExpiredSignatures(ledger, ttlDays, now)
    /\ ret' = [op |-> "prune", ttlDays |-> ttlDays, before |-> ledger]
    /\ UNCHANGED <<now, config, routeVars, fpVars, ownerVars, triageVars, runVars, colVars, agentVars>>

ShouldAttempt(sig) ==
    LET r == shouldAttemptSignature(sig, ledger, config, now)
    IN  /\ ledger' = r.ledger
        /\ ret' = [op |-> "shouldAttempt", sig |-> sig, allowed |-> r.allowed,
                   reason |-> r.reason, record |-> r.record,
                   pruned |-> IF /\ ret.op = "prune"
                                 /\ sig \in DOMAIN ret.before \ DOMAIN ledger
                              THEN ret.before[sig] ELSE NoRecord]
        /\ UNCHANGED <<now, config, routeVars, fpVars, ownerVars, triageVars, runVars, colVars, agentVars>>

UpdateLedger(sig, outcome, details) ==
    /\ sig \in DOMAIN ledger => ledger[sig].attempts < MaxCount
    /\ ledger' = updateSignatureLedger(sig, ledger, outcome, details, now)
    /\ ret' = [op |-> "update", sig |-> sig, outcome |-> outcome, details |-> details]
    /\ UNCHANGED <<now, config, routeVars, fpVars, ownerVars, triageVars, runVars, colVars, agentVars>>

SetThread(sig, url) ==
    /\ ledger' = setSignatureThread(sig, ledger, url)
    /\ ret' = [op |-> "setThread", sig |-> sig, url |-> url, before |-> ledger]
    /\ UNCHANGED <<now, config, routeVars, fpVars, ownerVars, triageVars, runVars, colVars, agentVars>>

LedgerNext ==
    \/ \E ttlDays \in 0..MaxTime : PruneExpired(ttlDays)
    \/ \E sig \in Sigs : ShouldAttempt(sig)
    \/ \E outcome \in SignatureOutcome, details \in Details :
          UpdateLedger("sigA", outcome, details)
    \/ \E sig \in Sigs, url \in Urls : SetThread(sig, url)

SpecLedger == LedgerInit /\ [][LedgerNext]_vars

(***************************************************************************)
(* Properties of the ledger operations (checked under SpecLedger).         *)
(***************************************************************************)

\* C1: after its internal pruning shouldAttemptSignature allows, with no
\* record, a fingerprint the ledger does not hold; blocks a record whose
\* attempts >= max_attempts_per_signature; blocks a record whose lastOutcome is
\* report-only or quarantine whatever its attempts; and otherwise allows and
\* returns the record.
C1_ShouldAttemptGate ==
    ret.op = "shouldAttempt" =>
        LET has == ret.sig \in DOMAIN ledger
            max == config.max_attempts_per_signature
        IN  /\ ~has => ret.allowed /\ ret.record = NoRecord
            /\ has /\ ledger[ret.sig].attempts >= max => ~ret.allowed
            /\ has /\ ledger[ret.sig].lastOutcome \in {"report-only", "quarantine"}
                  => ~ret.allowed
            /\ has /\ ledger[ret.sig].attempts < max
                   /\ ledger[ret.sig].lastOutcome \in {"fix", "failed"}
                  => ret.allowed /\ ret.record = ledger[ret.sig]

\* C1 witness: a record below the attempt limit is blocked by its lastOutcome
C1_Witness ==
    /\ ret.op = "shouldAttempt"
    /\ ret.sig \in DOMAIN ledger
    /\ ledger[ret.sig].attempts < config.max_attempts_per_signature
    /\ ledger[ret.sig].lastOutcome = "quarantine"
    /\ ~ret.allowed

\* C2: pruneExpiredSignatures removes exactly the records whose lastSeen is
\* earlier than now - ttlDays or does not parse, leaving the others as they
\* were; and shouldAttemptSignature called next for a removed fingerprint
\* allows it and returns no record, even if the removed record was blocking.
C2_PruneExact ==
    /\ ret.op = "prune" =>
          /\ DOMAIN ledger \subseteq DOMAIN ret.before
          /\ \A s \in DOMAIN ret.before :
                /\ s \in DOMAIN ledger <=>
                      /\ ret.before[s].lastSeen # NaN
                      /\ ret.before[s].lastSeen >= now - ret.ttlDays
                /\ s \in DOMAIN ledger => ledger[s] = ret.before[s]
    /\ ret.op = "shouldAttempt" /\ ret.pruned # NoRecord =>
          /\ ret.allowed
          /\ ret.record = NoRecord
          /\ ret.sig \notin DOMAIN ledger

\* C2 witness: a record at the attempt limit was pruned, and the fingerprint
\* is then allowed
C2_Witness ==
    /\ ret.op = "shouldAttempt"
    /\ ret.pruned # NoRecord
    /\ ret.pruned.attempts >= config.max_attempts_per_signature
    /\ ret.pruned.lastSeen # NaN
    /\ ret.allowed

\* C7: setSignatureThread on a fingerprint without a record changes nothing
\* (the record count stays); on a fingerprint with a record it sets threadUrl
\* and leaves attempts, lastOutcome and every other record unchanged.
C7_SetThreadFrame ==
    ret.op = "setThread" =>
        IF ret.sig \notin DOMAIN ret.before
        THEN /\ ledger = ret.before
             /\ Cardinality(DOMAIN ledger) = Cardinality(DOMAIN ret.before)
        ELSE /\ DOMAIN ledger = DOMAIN ret.before
             /\ ledger[ret.sig].threadUrl = ret.url
             /\ ledger[ret.sig].attempts = ret.before[ret.sig].attempts
             /\ ledger[ret.sig].lastOutcome = ret.before[ret.sig].lastOutcome
             /\ \A s \in DOMAIN ledger \ {ret.sig} : ledger[s] = ret.before[s]

\* C7 witness: a thread URL replaced on a known fingerprint, next to another record
C7_Witness ==
    /\ ret.op = "setThread"
    /\ ret.sig \in DOMAIN ret.before
    /\ ret.before[ret.sig].threadUrl \notin {NoVal, ret.url}
    /\ DOMAIN ledger = Sigs
    /\ ledger[ret.sig].threadUrl = ret.url

\* the record of sig before an update: the stored one, or the one created
StoredBefore(sig, l, t, outcome) ==
    IF sig \in DOMAIN l THEN l[sig]
    ELSE SignatureRecord(sig, 0, t, outcome, NoVal, NoVal, NoVal)

\* what every update does, whatever the details: the record exists afterwards
\* with attempts one higher (from 0 when created), lastSeen the current time,
\* lastOutcome the outcome, and no other record modified
UpdateCore(before, after, call, t) ==
    /\ DOMAIN after = DOMAIN before \cup {call.sig}
    /\ \A s \in DOMAIN before \ {call.sig} : after[s] = before[s]
    /\ after[call.sig].signature = call.sig
    /\ after[call.sig].attempts =
          (IF call.sig \in DOMAIN before THEN before[call.sig].attempts ELSE 0) + 1
    /\ after[call.sig].lastSeen = t
    /\ after[call.sig].lastOutcome = call.outcome

\* C12 as stated: every update does UpdateCore; a supplied owner, resolution
\* or threadUrl overwrites the stored value and one not supplied leaves it.
C12_UpdateOverwrites ==
    [][ret'.op = "update" =>
         LET old == StoredBefore(ret'.sig, ledger, now, ret'.outcome)
             new == ledger'[ret'.sig]
             d == ret'.details
         IN  /\ UpdateCore(ledger, ledger', ret', now)
             /\ new.lastOwner = IF d.owner # NoVal THEN d.owner ELSE old.lastOwner
             /\ new.lastResolution =
                   IF d.resolution # NoVal THEN d.resolution ELSE old.lastResolution
             /\ new.threadUrl = IF d.threadUrl # NoVal THEN d.threadUrl ELSE old.threadUrl
      ]_vars

\* C12 amended: every update does UpdateCore; a supplied non-empty owner,
\* resolution or threadUrl overwrites the stored value, and a detail that is
\* not supplied or is the empty string leaves the stored value unchanged.
C12_UpdateMerges ==
    [][ret'.op = "update" =>
         LET old == StoredBefore(ret'.sig, ledger, now, ret'.outcome)
             new == ledger'[ret'.sig]
             d == ret'.details
         IN  /\ UpdateCore(ledger, ledger', ret', now)
             /\ new.lastOwner = IF d.owner \notin {NoVal, ""} THEN d.owner ELSE old.lastOwner
             /\ new.lastResolution =
                   IF d.resolution \notin {NoVal, ""} THEN d.resolution
                   ELSE old.lastResolution
             /\ new.threadUrl =
                   IF d.threadUrl \notin {NoVal, ""} THEN d.threadUrl ELSE old.threadUrl
      ]_vars

\* C12 witness: an update of a known fingerprint, next to another record, that
\* supplied owner bob and an empty resolution: the owner is replaced and the
\* stored resolution kept
C12_Witness ==
    /\ ret.op = "update"
    /\ ret.details.owner = "bob"
    /\ ret.details.resolution = ""
    /\ DOMAIN ledger = Sigs
    /\ ledger[ret.sig].attempts > 1
    /\ ledger[ret.sig].lastOwner = "bob"
    /\ ledger[ret.sig].lastResolution = "patched"
    /\ ledger[ret.sig].threadUrl = "url2"

(***************************************************************************)
(* Policy router: src/agent/routing.ts                                     *)
(***************************************************************************)
FailureClass ==
    {"deterministic", "flaky", "secrets", "permissions", "infra_outage",
     "dependency_registry", "unknown"}
FailureType == {"test", "lint", "build", "typecheck", "unknown"}
RoutingDecision == {"fix_attempt", "report_only", "flake_workflow", "escalate"}

\* routeFailure with the fix-attempt test moved before the class tests
routeFailure_typeFirst(context, cfg) ==
    IF context.failureType \in cfg.fix_attempt THEN "fix_attempt"
    ELSE IF context.failureClass \in cfg.report_only THEN "report_only"
    ELSE IF context.failureClass \in cfg.flake_workflow THEN "flake_workflow"
    ELSE "escalate"

\* routeFailure(context, config); Array.prototype.includes is membership
routeFailure(context, cfg) ==
    IF context.failureClass \in cfg.report_only THEN "report_only"
    ELSE IF context.failureClass \in cfg.flake_workflow THEN "flake_workflow"
    ELSE IF context.failureType \in cfg.fix_attempt THEN "fix_attempt"
    ELSE "escalate"

\* RoutingSchema defaults
DefaultReportOnly == {"secrets", "permissions", "infra_outage", "dependency_registry"}
DefaultFixAttempt == {"test", "lint", "typecheck", "build"}
DefaultFlakeWorkflow == {"flaky"}

\* the configured lists hold any strings; the defaults and lists that overlap
ReportOnlyLists == {DefaultReportOnly, {}, {"flaky"}, {"deterministic", "unknown"}}
FlakeWorkflowLists == {DefaultFlakeWorkflow, {}, {"deterministic"}, {"secrets", "flaky"}}
FixAttemptLists == {DefaultFixAttempt, {}, {"test"}, {"unknown", "build"}}

RouteInit ==
    /\ routing \in [failureClass : FailureClass, failureType : FailureType,
                    report_only : ReportOnlyLists, flake_workflow : FlakeWorkflowLists,
                    fix_attempt : FixAttemptLists, out : {NoVal}]
    /\ LedgerIdle
    /\ FingerprintIdle
    /\ OwnerIdle
    /\ TriageIdle
    /\ RunIdle
    /\ CollectorIdle
    /\ AgentIdle

RouteFailure ==
    /\ routing.out = NoVal
    /\ routing' = [routing EXCEPT !.out = routeFailure(routing, routing)]
    /\ UNCHANGED <<ledgerVars, fpVars, ownerVars, triageVars, runVars, colVars, agentVars>>

RouteNext == RouteFailure

SpecRoute == RouteInit /\ [][RouteNext]_vars

\* C3: routeFailure returns report_only if the class is in the report-only
\* list; otherwise flake_workflow if the class is in the flake list; otherwise
\* fix_attempt if the type is in the fix-attempt list; otherwise escalate: a
\* listed class wins over a listed type (flaky + test is flake_workflow).
C3_RoutePrecedence ==
    routing.out # NoVal =>
        LET inReport == routing.failureClass \in routing.report_only
            inFlake == routing.failureClass \in routing.flake_workflow
            inFix == routing.failureType \in routing.fix_attempt
        IN  /\ inReport => routing.out = "report_only"
            /\ ~inReport /\ inFlake => routing.out = "flake_workflow"
            /\ ~inReport /\ ~inFlake /\ inFix => routing.out = "fix_attempt"
            /\ ~inReport /\ ~inFlake /\ ~inFix => routing.out = "escalate"
            /\ (routing.failureClass = "flaky" /\ routing.failureType = "test"
                /\ routing.report_only = DefaultReportOnly
                /\ routing.flake_workflow = DefaultFlakeWorkflow
                /\ routing.fix_attempt = DefaultFixAttempt)
                  => routing.out = "flake_workflow"

\* C3 witness: flaky + test under the default lists went to the flake workflow
C3_Witness ==
    /\ routing.out = "flake_workflow"
    /\ routing.failureClass = "flaky"
    /\ routing.failureType = "test"
    /\ "test" \in routing.fix_attempt
    /\ routing.report_only = DefaultReportOnly

(***************************************************************************)
(* Strings: sequences of one-character strings.                            *)
(***************************************************************************)
Digit == {"0", "1", "2", "3", "4", "5", "6", "7", "8", "9"}
UpperCase == <<"A", "B", "C", "D", "E", "F", "G", "H", "I", "J", "K", "L", "M",
               "N", "O", "P", "Q", "R", "S", "T", "U", "V", "W", "X", "Y", "Z">>
LowerCase == <<"a", "b", "c", "d", "e", "f", "g", "h", "i", "j", "k", "l", "m",
               "n", "o", "p", "q", "r", "s", "t", "u", "v", "w", "x", "y", "z">>
Letter == {UpperCase[i] : i \in DOMAIN UpperCase} \cup {LowerCase[i] : i \in DOMAIN LowerCase}
HexDigit == Digit \cup {"a", "b", "c", "d", "e", "f", "A", "B", "C", "D", "E", "F"}
WordChar == Letter \cup Digit \cup {"_"}          \* \w
WhiteSpace == {" ", "\t", "\n", "\r"}               \* \s
PathChar == WordChar \cup {"-", ".", "/"}         \* [\w\-\.\/]

\* the longest prefix of s made of characters of class
RECURSIVE RunLength(_, _)
RunLength(s, class) ==
    IF s # <<>> /\ Head(s) \in class THEN 1 + RunLength(Tail(s), class) ELSE 0

\* s without its first n characters
Drop(s, n) == SubSeq(s, n + 1, Len(s))

\* Array.prototype.join(sep) on strings
RECURSIVE Join(_, _)
Join(parts, sep) ==
    IF parts = <<>> THEN <<>>
    ELSE IF Len(parts) = 1 THEN parts[1]
    ELSE parts[1] \o sep \o Join(Tail(parts), sep)

\* String.prototype.toLowerCase
LowerCaseOf == [c \in {UpperCase[k] : k \in DOMAIN UpperCase} |->
                   LowerCase[CHOOSE k \in DOMAIN UpperCase : UpperCase[k] = c]]

ToLowerCase(s) ==
    [i \in DOMAIN s |-> IF s[i] \in DOMAIN LowerCaseOf THEN LowerCaseOf[s[i]] ELSE s[i]]

\* String.prototype.trim
RECURSIVE TrimEnd(_)
TrimEnd(s) ==
    IF s # <<>> /\ s[Len(s)] \in WhiteSpace THEN TrimEnd(SubSeq(s, 1, Len(s) - 1)) ELSE s

Trim(s) == TrimEnd(Drop(s, RunLength(s, WhiteSpace)))

(***************************************************************************)
(* Fingerprint: computeSignature, src/agent/signatures.ts                  *)
(***************************************************************************)
\* .replace(/\d+/g, "N")
RECURSIVE ReplaceNumbers(_)
ReplaceNumbers(s) ==
    IF s = <<>> THEN <<>>
    ELSE IF Head(s) \in Digit
         THEN <<"N">> \o ReplaceNumbers(Drop(s, RunLength(s, Digit)))
         ELSE <<Head(s)>> \o ReplaceNumbers(Tail(s))

\* .replace(/0x[a-f0-9]+/gi, "X")
RECURSIVE ReplaceHexAddresses(_)
ReplaceHexAddresses(s) ==
    IF s = <<>> THEN <<>>
    ELSE IF /\ Len(s) >= 3
            /\ s[1] = "0"
            /\ s[2] \in {"x", "X"}
            /\ s[3] \in HexDigit
         THEN <<"X">> \o ReplaceHexAddresses(Drop(s, 2 + RunLength(Drop(s, 2), HexDigit)))
         ELSE <<Head(s)>> \o ReplaceHexAddresses(Tail(s))

\* the end of the match of /\/[\w\-\.\/]+\// at the start of s, or 0: the last
\* "/" of the run of path characters after the first "/", at least one
\* character later
PathMatchEnd(s) ==
    IF s = <<>> \/ Head(s) # "/" THEN 0
    ELSE LET len == RunLength(Tail(s), PathChar)
             ends == {j \in 3..(len + 1) : s[j] = "/"}
         IN  IF ends = {} THEN 0 ELSE CHOOSE j \in ends : \A k \in ends : k <= j

\* .replace(/\/[\w\-\.\/]+\//g, "/PATH/")
RECURSIVE ReplacePaths(_)
ReplacePaths(s) ==
    IF s = <<>> THEN <<>>
    ELSE IF PathMatchEnd(s) > 0
         THEN <<"/", "P", "A", "T", "H", "/">> \o ReplacePaths(Drop(s, PathMatchEnd(s)))
         ELSE <<Head(s)>> \o ReplacePaths(Tail(s))

\* .replace(/\s+/g, " ")
RECURSIVE CollapseWhiteSpace(_)
CollapseWhiteSpace(s) ==
    IF s = <<>> THEN <<>>
    ELSE IF Head(s) \in WhiteSpace
         THEN <<" ">> \o CollapseWhiteSpace(Drop(s, RunLength(s, WhiteSpace)))
         ELSE <<Head(s)>> \o CollapseWhiteSpace(Tail(s))

\* normalizeErrorSignature(signature)
normalizeErrorSignature(signature) ==
    ToLowerCase(Trim(CollapseWhiteSpace(ReplacePaths(ReplaceHexAddresses(
        ReplaceNumbers(signature))))))

\* evidence?.job || "": an unset or empty field is the empty string
OrEmpty(v) == IF v = Undefined THEN <<>> ELSE v

\* createHash("sha256").update(payload).digest("hex"): distinct payloads get
\* distinct digests (SHA-256 taken as collision-free)
sha256hex(payload) == <<"sha256">> \o payload

\* computeSignature(context)
computeSignature(context) ==
    sha256hex(Join(<<context.repo, context.failureType,
                     normalizeErrorSignature(context.errorSignature),
                     context.failedCommand,
                     OrEmpty(context.job), OrEmpty(context.step)>>, <<"|">>))

(***************************************************************************)
(* SpecFingerprint: two failure contexts that agree on everything but the  *)
(* volatile part of the error signature.                                   *)
(***************************************************************************)
SigPrefixes == {<<"a", "t", " ">>, <<"E", "r", "r", "o", "r", ":", " ", "x", " ", "=", " ">>}
SigSuffixes == {<<>>, <<" ", "i", "n", " ", " ", "r", "u", "n">>}
DigitRuns == {<<"7">>, <<"4", "2">>, <<"3", "0", "0">>}
HexAddresses == {<<"0", "x", "1", "f">>, <<"0", "x", "d", "e", "a", "d">>, <<"0", "x", "B", "E", "E", "F">>}
FsPaths == {<<"/", "t", "m", "p", "/", "a", "/", "x", ".", "t", "s">>,
            <<"/", "h", "o", "m", "e", "/", "c", "i", "/", "b", "/", "x", ".", "t", "s">>,
            <<"/", "v", "a", "r", "/", "l", "i", "b", "/", "x", ".", "t", "s">>}

\* the volatile parts, by kind
Volatile(kind) ==
    IF kind = "digits" THEN DigitRuns
    ELSE IF kind = "hex" THEN HexAddresses
    ELSE FsPaths

FingerprintInit ==
    /\ \E kind \in {"digits", "hex", "path"} :
       \E pre \in SigPrefixes, post \in SigSuffixes :
       \E v1 \in Volatile(kind), v2 \in Volatile(kind) :
       \E ft \in {<<"t", "e", "s", "t">>, <<"b", "u", "i", "l", "d">>} :
       \E job \in {Undefined, <<"c", "i">>} :
          fp = [repo |-> <<"o", "/", "r">>, failureType |-> ft,
                failedCommand |-> <<"n", "p", "m", " ", "t", "e", "s", "t">>,
                job |-> job, step |-> IF job = Undefined THEN Undefined ELSE <<"R", "u", "n", " ", "n", "p", "m", " ", "t", "e", "s", "t">>,
                kind |-> kind,
                errorSignature1 |-> pre \o v1 \o post,
                errorSignature2 |-> pre \o v2 \o post,
                out1 |-> <<>>, out2 |-> <<>>]
    /\ LedgerIdle
    /\ RouteIdle
    /\ OwnerIdle
    /\ TriageIdle
    /\ RunIdle
    /\ CollectorIdle
    /\ AgentIdle

FingerprintContext(errorSignature) ==
    [repo |-> fp.repo, failureType |-> fp.failureType, errorSignature |-> errorSignature,
     failedCommand |-> fp.failedCommand, job |-> fp.job, step |-> fp.step]

ComputeFirst ==
    /\ fp.out1 = <<>>
    /\ fp' = [fp EXCEPT !.out1 = computeSignature(FingerprintContext(fp.errorSignature1))]
    /\ UNCHANGED <<ledgerVars, routeVars, ownerVars, triageVars, runVars, colVars, agentVars>>

ComputeSecond ==
    /\ fp.out2 = <<>>
    /\ fp' = [fp EXCEPT !.out2 = computeSignature(FingerprintContext(fp.errorSignature2))]
    /\ UNCHANGED <<ledgerVars, routeVars, ownerVars, triageVars, runVars, colVars, agentVars>>

FingerprintNext == ComputeFirst \/ ComputeSecond

SpecFingerprint == FingerprintInit /\ [][FingerprintNext]_vars

\* C6: two failure contexts with equal repository id, failure type, failed
\* command, evidence job and evidence step, whose error signatures differ only
\* in a digit run, a hexadecimal address or a filesystem path, get the same
\* digest from computeSignature.
C6_SameDigest ==
    fp.out1 # <<>> /\ fp.out2 # <<>> => fp.out1 = fp.out2

(***************************************************************************)
(* Owner resolver: src/agent/owner-routing.ts                              *)
(***************************************************************************)
StartsWith(s, prefix) ==
    Len(prefix) <= Len(s) /\ SubSeq(s, 1, Len(prefix)) = prefix

EndsWith(s, suffix) ==
    Len(suffix) <= Len(s) /\ SubSeq(s, Len(s) - Len(suffix) + 1, Len(s)) = suffix

\* String.prototype.split(/\s+/).filter(Boolean)
RECURSIVE SplitWhiteSpace(_)
SplitWhiteSpace(s) ==
    IF s = <<>> THEN <<>>
    ELSE IF Head(s) \in WhiteSpace THEN SplitWhiteSpace(Drop(s, RunLength(s, WhiteSpace)))
    ELSE LET n == RunLength(s, {c \in {s[i] : i \in DOMAIN s} : c \notin WhiteSpace})
         IN  <<SubSeq(s, 1, n)>> \o SplitWhiteSpace(Drop(s, n))

\* the segments of a path between its "/" characters (empty ones included)
RECURSIVE SplitSlash(_)
SplitSlash(s) ==
    LET n == RunLength(s, {c \in {s[i] : i \in DOMAIN s} : c # "/"})
    IN  IF n = Len(s) THEN <<s>>
        ELSE <<SubSeq(s, 1, n)>> \o SplitSlash(Drop(s, n + 1))

\* normalizeString of path.posix: "", "." dropped, ".." resolved
RECURSIVE NormalizeSegments(_, _, _)
NormalizeSegments(segs, acc, allowAboveRoot) ==
    IF segs = <<>> THEN acc
    ELSE LET seg == Head(segs)
             rest == Tail(segs)
         IN  IF seg = <<>> \/ seg = <<".">> THEN NormalizeSegments(rest, acc, allowAboveRoot)
             ELSE IF seg = <<".", ".">>
                  THEN IF acc # <<>> /\ acc[Len(acc)] # <<".", ".">>
                       THEN NormalizeSegments(rest, SubSeq(acc, 1, Len(acc) - 1), allowAboveRoot)
                       ELSE IF allowAboveRoot
                            THEN NormalizeSegments(rest, Append(acc, seg), allowAboveRoot)
                            ELSE NormalizeSegments(rest, acc, allowAboveRoot)
                  ELSE NormalizeSegments(rest, Append(acc, seg), allowAboveRoot)

\* path.posix.normalize
PosixNormalize(p) ==
    IF p = <<>> THEN <<".">>
    ELSE LET isAbsolute == p[1] = "/"
             trailingSeparator == p[Len(p)] = "/"
             body == Join(NormalizeSegments(SplitSlash(p), <<>>, ~isAbsolute), <<"/">>)
         IN  IF body = <<>>
             THEN IF isAbsolute THEN <<"/">>
                  ELSE IF trailingSeparator THEN <<".", "/">> ELSE <<".">>
             ELSE (IF isAbsolute THEN <<"/">> ELSE <<>>) \o body
                  \o (IF trailingSeparator THEN <<"/">> ELSE <<>>)

\* normalizePath(filePath)
normalizePath(filePath) ==
    LET cleaned == [i \in DOMAIN Trim(filePath) |->
                       IF Trim(filePath)[i] = "\\" THEN "/" ELSE Trim(filePath)[i]]
        normalized == PosixNormalize(cleaned)
    IN  IF StartsWith(normalized, <<".", "/">>) THEN Drop(normalized, 2) ELSE normalized

\* [...new Set(list)]: first occurrences, in order
RECURSIVE Dedupe(_, _)
Dedupe(list, seen) ==
    IF list = <<>> THEN <<>>
    ELSE IF Head(list) \in seen THEN Dedupe(Tail(list), seen)
    ELSE <<Head(list)>> \o Dedupe(Tail(list), seen \cup {Head(list)})

\* .filter(Boolean) on strings: undefined and "" are dropped
RECURSIVE FilterBoolean(_)
FilterBoolean(list) ==
    IF list = <<>> THEN <<>>
    ELSE IF Head(list) = Undefined \/ Head(list) = <<>> THEN FilterBoolean(Tail(list))
    ELSE <<Head(list)>> \o FilterBoolean(Tail(list))

\* buildCandidateFiles(context)
buildCandidateFiles(context) ==
    LET files == FilterBoolean(<<context.evidenceFile>> \o context.relevantFiles
                               \o context.changedFiles)
        normalized == FilterBoolean([i \in DOMAIN files |-> normalizePath(files[i])])
    IN  Dedupe(normalized, {})

\* the characters globToRegex puts a backslash before
EscapedChars == {".", "+", "^", "$", "{", "}", "(", ")", "|", "[", "]", "\\"}

\* globToRegex(glob): the regular expression as a sequence of tokens,
\* "all" for .* , "seg" for [^/]* , "any" for . , "lit" for an escaped
\* character and "chr" for a character copied as it is
RECURSIVE globToRegex(_)
globToRegex(glob) ==
    IF glob = <<>> THEN <<>>
    ELSE IF Head(glob) = "*" /\ Len(glob) >= 2 /\ glob[2] = "*"
         THEN <<[t |-> "all"]>> \o globToRegex(Drop(glob, 2))
    ELSE IF Head(glob) = "*" THEN <<[t |-> "seg"]>> \o globToRegex(Tail(glob))
    ELSE IF Head(glob) = "?" THEN <<[t |-> "any"]>> \o globToRegex(Tail(glob))
    ELSE IF Head(glob) \in EscapedChars
         THEN <<[t |-> "lit", c |-> Head(glob)]>> \o globToRegex(Tail(glob))
    ELSE <<[t |-> "chr", c |-> Head(glob)]>> \o globToRegex(Tail(glob))

\* every pattern compiled with the free prefix (^|.*/)
codeownersPatternToRegExp_freePrefix(pattern) ==
    LET trimmed == Trim(pattern)
        anchor == StartsWith(trimmed, <<"/">>)
        stripped == IF anchor THEN Drop(trimmed, RunLength(trimmed, {"/"})) ELSE trimmed
        cleaned == IF EndsWith(stripped, <<"/">>) THEN stripped \o <<"*", "*">> ELSE stripped
    IN  [anchor |-> FALSE, body |-> globToRegex(cleaned)]

\* codeownersPatternToRegExp(pattern): prefix ^ (anchor) or (^|.*/), body, $
codeownersPatternToRegExp(pattern) ==
    LET trimmed == Trim(pattern)
        anchor == StartsWith(trimmed, <<"/">>)
        stripped == IF anchor THEN Drop(trimmed, RunLength(trimmed, {"/"})) ELSE trimmed
        cleaned == IF EndsWith(stripped, <<"/">>) THEN stripped \o <<"*", "*">> ELSE stripped
    IN  [anchor |-> anchor, body |-> globToRegex(cleaned)]

\* the tokens body[i..] match text[j..] up to the end of text ($); of the
\* characters with a meaning of their own in a regular expression, only the
\* dot can be read one token at a time when it is left without its backslash
RECURSIVE MatchFrom(_, _, _, _)
MatchFrom(body, i, text, j) ==
    IF i > Len(body) THEN j > Len(text)
    ELSE LET tok == body[i]
         IN  IF tok.t = "lit" \/ (tok.t = "chr" /\ tok.c # ".")
             THEN j <= Len(text) /\ text[j] = tok.c /\ MatchFrom(body, i + 1, text, j + 1)
             ELSE IF tok.t = "any" \/ tok.t = "chr"
             THEN j <= Len(text) /\ text[j] \notin {"\n", "\r"}
                  /\ MatchFrom(body, i + 1, text, j + 1)
             ELSE IF tok.t = "seg"
             THEN \/ MatchFrom(body, i + 1, text, j)
                  \/ j <= Len(text) /\ text[j] # "/" /\ MatchFrom(body, i, text, j + 1)
             ELSE \/ MatchFrom(body, i + 1, text, j)
                  \/ j <= Len(text) /\ text[j] \notin {"\n", "\r"}
                     /\ MatchFrom(body, i, text, j + 1)

\* rule.regex.test(file)
RegExpTest(regex, file) ==
    \/ MatchFrom(regex.body, 1, file, 1)
    \/ /\ ~regex.anchor
       /\ \E k \in DOMAIN file : file[k] = "/" /\ MatchFrom(regex.body, 1, file, k + 1)

\* the rules of one CODEOWNERS file: blank lines, comments and lines without
\* a pattern or without an owner are skipped
RECURSIVE ParseCodeowners(_, _, _)
ParseCodeowners(fileLines, i, sourcePath) ==
    IF i > Len(fileLines) THEN <<>>
    ELSE LET raw == Trim(fileLines[i])
             parts == SplitWhiteSpace(raw)
         IN  IF raw = <<>> \/ Head(raw) = "#" \/ Len(parts) < 2
             THEN ParseCodeowners(fileLines, i + 1, sourcePath)
             ELSE <<[pattern |-> parts[1], owners |-> Tail(parts),
                     regex |-> codeownersPatternToRegExp(parts[1]),
                     sourcePath |-> sourcePath, lineNumber |-> i]>>
                  \o ParseCodeowners(fileLines, i + 1, sourcePath)

DefaultCodeownersPaths == <<"CODEOWNERS", ".github/CODEOWNERS">>

\* fs.existsSync(filePath) is true and fs.readFileSync(filePath) throws: a
\* directory, or a file that may not be read
Unreadable(files, location) == files[location].kind = "unreadable"

\* loadCodeowners(paths): the rules of every location that exists, in order;
\* "throws" when readFileSync throws
RECURSIVE LoadLocations(_, _)
LoadLocations(locations, files) ==
    IF locations = <<>> THEN <<>>
    ELSE LET location == Head(locations)
         IN  (IF files[location].kind = "missing" THEN <<>>
              ELSE ParseCodeowners(files[location].lines, 1, location))
             \o LoadLocations(Tail(locations), files)

loadCodeowners(paths, files) ==
    LET locations == IF Len(paths) > 0 THEN paths ELSE DefaultCodeownersPaths
    IN  IF \E i \in DOMAIN locations : Unreadable(files, locations[i])
        THEN [throws |-> TRUE, rules |-> <<>>]
        ELSE [throws |-> FALSE, rules |-> LoadLocations(locations, files)]

NoMatch == [found |-> FALSE]

\* the last rule of rules (from index i on) that matches file, after matched
RECURSIVE LastMatchingRule(_, _, _, _)
LastMatchingRule(rules, i, file, matched) ==
    IF i > Len(rules) THEN matched
    ELSE LastMatchingRule(rules, i + 1, file,
                          IF RegExpTest(rules[i].regex, file)
                          THEN [found |-> TRUE, rule |-> rules[i], file |-> file]
                          ELSE matched)

\* the first rule of rules that matches file
RECURSIVE FirstMatchingRule(_, _, _, _)
FirstMatchingRule(rules, i, file, matched) ==
    IF i > Len(rules) THEN matched
    ELSE IF RegExpTest(rules[i].regex, file)
         THEN [found |-> TRUE, rule |-> rules[i], file |-> file]
         ELSE FirstMatchingRule(rules, i + 1, file, matched)

\* findCodeownersMatch keeping the first matching rule instead of the last
RECURSIVE findCodeownersMatch_first(_, _)
findCodeownersMatch_first(files, rules) ==
    IF files = <<>> THEN NoMatch
    ELSE LET matched == FirstMatchingRule(rules, 1, Head(files), NoMatch)
         IN  IF matched.found THEN matched ELSE findCodeownersMatch_first(Tail(files), rules)

\* findCodeownersMatch(files, rules)
RECURSIVE findCodeownersMatch(_, _)
findCodeownersMatch(files, rules) ==
    IF files = <<>> THEN NoMatch
    ELSE LET matched == LastMatchingRule(rules, 1, Head(files), NoMatch)
         IN  IF matched.found THEN matched ELSE findCodeownersMatch(Tail(files), rules)

DigitChars == <<"0", "1", "2", "3", "4", "5", "6", "7", "8", "9">>
DigitValue(c) == (CHOOSE i \in DOMAIN DigitChars : DigitChars[i] = c) - 1

\* Number.parseInt of a run of digits
RECURSIVE ParseDigits(_, _)
ParseDigits(s, acc) ==
    IF s = <<>> THEN acc ELSE ParseDigits(Tail(s), 10 * acc + DigitValue(Head(s)))

\* parseLineNumber(line): the first run of digits, or null (0 here: the
\* caller treats 0 and null alike, !lineNumber)
RECURSIVE parseLineNumber(_)
parseLineNumber(line) ==
    IF line = <<>> THEN 0
    ELSE IF Head(line) \in Digit THEN ParseDigits(SubSeq(line, 1, RunLength(line, Digit)), 0)
    ELSE parseLineNumber(Tail(line))

\* buildLineCandidates(lineNumber, depth)
RECURSIVE LineOffsets(_, _, _)
LineOffsets(lineNumber, offset, depth) ==
    IF offset >= depth THEN <<>>
    ELSE (IF lineNumber - offset > 0 THEN <<lineNumber - offset>> ELSE <<>>)
         \o <<lineNumber + offset>> \o LineOffsets(lineNumber, offset + 1, depth)

\* the offsets running up to depth itself
buildLineCandidates_inclusive(lineNumber, depth) ==
    <<lineNumber>> \o LineOffsets(lineNumber, 1, depth + 1)

buildLineCandidates(lineNumber, depth) ==
    <<lineNumber>> \o LineOffsets(lineNumber, 1, depth)

\* what `git blame -L n,n --porcelain -- file` gives: it throws, its output
\* has no author, or it names an author
GitThrows == <<"<throws>">>
GitEmpty == <<>>

\* execSync is given no timeout: a git process that never exits on its own
\* keeps the caller waiting
GitHangs == <<"<hangs>">>
Blocked == [found |-> FALSE, blocked |-> TRUE]

\* the blame lookups giving up at the first one that throws
RECURSIVE FirstBlame_abortOnThrow(_, _, _)
FirstBlame_abortOnThrow(candidates, file, blame) ==
    IF candidates = <<>> THEN NoMatch
    ELSE LET line == Head(candidates)
             result == IF line \in DOMAIN blame THEN blame[line] ELSE GitThrows
         IN  IF result = GitHangs THEN Blocked
             ELSE IF result = GitThrows THEN NoMatch
             ELSE IF result = GitEmpty
             THEN FirstBlame_abortOnThrow(Tail(candidates), file, blame)
             ELSE [found |-> TRUE, owner |-> result, file |-> file, line |-> line]

\* the blame lookups, in the order of candidates: the first author found
RECURSIVE FirstBlame(_, _, _)
FirstBlame(candidates, file, blame) ==
    IF candidates = <<>> THEN NoMatch
    ELSE LET line == Head(candidates)
             result == IF line \in DOMAIN blame THEN blame[line] ELSE GitThrows
         IN  IF result = GitHangs THEN Blocked
             ELSE IF result \in {GitThrows, GitEmpty}
             THEN FirstBlame(Tail(candidates), file, blame)
             ELSE [found |-> TRUE, owner |-> result, file |-> file, line |-> line]

\* resolveOwnerFromBlame(context, depth)
resolveOwnerFromBlame(context, depth, blame) ==
    IF context.evidenceFile \in {Undefined, <<>>} \/ context.evidenceLine \in {Undefined, <<>>}
    THEN NoMatch
    ELSE IF parseLineNumber(context.evidenceLine) = 0 \/ depth <= 0 THEN NoMatch
    ELSE FirstBlame(buildLineCandidates(parseLineNumber(context.evidenceLine), depth),
                    context.evidenceFile, blame)

\* the lines resolveOwnerFromBlame runs git blame on, in the order of the
\* calls: the loop goes on after a lookup that throws or names no author
RECURSIVE BlameCalls(_, _)
BlameCalls(candidates, blame) ==
    IF candidates = <<>> THEN <<>>
    ELSE LET line == Head(candidates)
             result == IF line \in DOMAIN blame THEN blame[line] ELSE GitThrows
         IN  IF result \in {GitThrows, GitEmpty}
             THEN <<line>> \o BlameCalls(Tail(candidates), blame)
             ELSE <<line>>

blameLookups(context, depth, blame) ==
    IF context.evidenceFile \in {Undefined, <<>>} \/ context.evidenceLine \in {Undefined, <<>>}
    THEN <<>>
    ELSE IF parseLineNumber(context.evidenceLine) = 0 \/ depth <= 0 THEN <<>>
    ELSE BlameCalls(buildLineCandidates(parseLineNumber(context.evidenceLine), depth), blame)

\* normalizePath(prefix).replace(/\/$/, "")
NormalizedPrefix(prefix) ==
    LET n == normalizePath(prefix)
    IN  IF EndsWith(n, <<"/">>) THEN SubSeq(n, 1, Len(n) - 1) ELSE n

\* the inner loop of resolveOwnerFromTeamMap over the prefixes, for one file
RECURSIVE TeamMapPrefixes(_, _, _, _)
TeamMapPrefixes(teamMap, i, file, best) ==
    IF i > Len(teamMap) THEN best
    ELSE LET normalizedPrefix == NormalizedPrefix(teamMap[i].prefix)
         IN  TeamMapPrefixes(teamMap, i + 1, file,
                IF /\ normalizedPrefix # <<>>
                   /\ StartsWith(file, normalizedPrefix)
                   /\ (~best.found \/ Len(normalizedPrefix) > Len(best.prefix))
                THEN [found |-> TRUE, owner |-> teamMap[i].owner,
                      prefix |-> normalizedPrefix, file |-> file]
                ELSE best)

\* the outer loop over the files
RECURSIVE TeamMapFiles(_, _, _)
TeamMapFiles(files, teamMap, best) ==
    IF files = <<>> THEN best
    ELSE TeamMapFiles(Tail(files), teamMap, TeamMapPrefixes(teamMap, 1, Head(files), best))

\* resolveOwnerFromTeamMap(files, config); team_map as its entries in key order
resolveOwnerFromTeamMap(files, teamMap) ==
    IF teamMap = <<>> THEN NoMatch ELSE TeamMapFiles(files, teamMap, NoMatch)

\* resolveOwnerFromLastCommit(files): `git log -1 --format="%an <%ae>" -- file`
RECURSIVE resolveOwnerFromLastCommit(_, _)
resolveOwnerFromLastCommit(files, log) ==
    IF files = <<>> THEN NoMatch
    ELSE LET result == IF Head(files) \in DOMAIN log THEN log[Head(files)] ELSE GitEmpty
         IN  IF result = GitHangs THEN Blocked
             ELSE IF result \in {GitThrows, GitEmpty}
             THEN resolveOwnerFromLastCommit(Tail(files), log)
             ELSE [found |-> TRUE, owner |-> result, file |-> Head(files)]

Unassigned == <<"u", "n", "a", "s", "s", "i", "g", "n", "e", "d">>

\* an OwnerAssignment that resolveOwnerAssignment returns
Assignment(owner, source, reason, confidence) ==
    [kind |-> "returned", owner |-> owner, source |-> source, reason |-> reason,
     confidence |-> confidence]

\* the lower tiers with the team map consulted before git blame
LowerTiers_teamMapFirst(context, cfg, env, candidateFiles) ==
    LET blame == resolveOwnerFromBlame(context, cfg.blame_depth, env.blame)
        teamMap == resolveOwnerFromTeamMap(candidateFiles, cfg.team_map)
        lastCommit == resolveOwnerFromLastCommit(candidateFiles, env.log)
        fallback == IF cfg.fallback_owner \in {Undefined, <<>>} THEN Unassigned
                    ELSE cfg.fallback_owner
    IN  IF teamMap.found
        THEN Assignment(teamMap.owner, "team_map",
                        [text |-> "team map match:", prefix |-> teamMap.prefix], "low")
        ELSE IF blame.found
        THEN Assignment(blame.owner, "blame",
                        [text |-> "git blame at", file |-> blame.file, line |-> blame.line],
                        "medium")
        ELSE IF lastCommit.found
        THEN Assignment(lastCommit.owner, "last_commit",
                        [text |-> "last commit on", file |-> lastCommit.file], "low")
        ELSE Assignment(fallback, "fallback", [text |-> "fallback owner"], "low")

\* the tiers after CODEOWNERS, and the fallback
LowerTiers(context, cfg, env, candidateFiles) ==
    LET blame == resolveOwnerFromBlame(context, cfg.blame_depth, env.blame)
        teamMap == resolveOwnerFromTeamMap(candidateFiles, cfg.team_map)
        lastCommit == resolveOwnerFromLastCommit(candidateFiles, env.log)
        fallback == IF cfg.fallback_owner \in {Undefined, <<>>} THEN Unassigned
                    ELSE cfg.fallback_owner
    IN  IF blame = Blocked THEN [kind |-> "blocked"]
        ELSE IF blame.found
        THEN Assignment(blame.owner, "blame",
                        [text |-> "git blame at", file |-> blame.file, line |-> blame.line],
                        "medium")
        ELSE IF teamMap.found
        THEN Assignment(teamMap.owner, "team_map",
                        [text |-> "team map match:", prefix |-> teamMap.prefix], "low")
        ELSE IF lastCommit = Blocked THEN [kind |-> "blocked"]
        ELSE IF lastCommit.found
        THEN Assignment(lastCommit.owner, "last_commit",
                        [text |-> "last commit on", file |-> lastCommit.file], "low")
        ELSE Assignment(fallback, "fallback", [text |-> "fallback owner"], "low")

\* resolveOwnerAssignment(context, config): the assignment, "raised" when
\* loadCodeowners throws, or "blocked" when a git lookup never returns
resolveOwnerAssignment(context, cfg, env) ==
    LET candidateFiles == buildCandidateFiles(context)
        codeowners == loadCodeowners(cfg.codeowners_paths, env.files)
    IN  IF codeowners.throws THEN [kind |-> "raised"]
        ELSE LET codeownersMatch == findCodeownersMatch(candidateFiles, codeowners.rules)
             IN  IF codeownersMatch.found
                 THEN Assignment(Join(codeownersMatch.rule.owners, <<" ">>), "codeowners",
                                 [text |-> "CODEOWNERS match:",
                                  pattern |-> codeownersMatch.rule.pattern,
                                  sourcePath |-> codeownersMatch.rule.sourcePath,
                                  lineNumber |-> codeownersMatch.rule.lineNumber],
                                 "high")
                 ELSE LowerTiers(context, cfg, env, candidateFiles)

(***************************************************************************)
(* SpecOwner: resolveOwnerAssignment on failure contexts, configurations,  *)
(* CODEOWNERS files and git answers drawn from the sets below.             *)
(***************************************************************************)
SrcStar == <<"s", "r", "c", "/", "*">>
SrcFooTs == <<"s", "r", "c", "/", "f", "o", "o", ".", "t", "s">>
TeamA == <<"@", "t", "e", "a", "m", "-", "a">>
TeamB == <<"@", "t", "e", "a", "m", "-", "b">>

\* evidence file and line, relevantFiles, changedFiles of a FailureContext
OwnerContexts ==
    {[evidenceFile |-> <<"s", "r", "c", "/", "f", "o", "o", ".", "t", "s">>, evidenceLine |-> <<"2">>, relevantFiles |-> <<<<"s", "r", "c", "/", "f", "o", "o", ".", "t", "s">>>>, changedFiles |-> <<>>],
     [evidenceFile |-> Undefined, evidenceLine |-> Undefined, relevantFiles |-> <<>>, changedFiles |-> <<>>],
     [evidenceFile |-> Undefined, evidenceLine |-> Undefined, relevantFiles |-> <<<<"d", "o", "c", "s", "/", "a", ".", "m", "d">>, <<"s", "r", "c", "/", "f", "o", "o", ".", "t", "s">>>>, changedFiles |-> <<<<"s", "r", "c", "-", "l", "e", "g", "a", "c", "y", "/", "f", "o", "o", ".", "t", "s">>>>],
     [evidenceFile |-> <<"s", "r", "c", "-", "l", "e", "g", "a", "c", "y", "/", "f", "o", "o", ".", "t", "s">>, evidenceLine |-> <<"0">>, relevantFiles |-> <<>>, changedFiles |-> <<<<"d", "o", "c", "s", "/", "a", ".", "m", "d">>>>],
     [evidenceFile |-> <<".", "/", "s", "r", "c", "/", "/", "f", "o", "o", ".", "t", "s">>, evidenceLine |-> <<":", "2", ":", "7">>, relevantFiles |-> <<<<"s", "r", "c", "/", "f", "o", "o", ".", "t", "s">>>>, changedFiles |-> <<<<"s", "r", "c", "/", "a", "p", "p", "l", "i", "c", "a", "t", "i", "o", "n", "/", "x", ".", "t", "s">>>>],
     [evidenceFile |-> <<"s", "r", "c", "/", "a", "p", "p", "l", "i", "c", "a", "t", "i", "o", "n", "/", "x", ".", "t", "s">>, evidenceLine |-> <<"2">>, relevantFiles |-> <<>>, changedFiles |-> <<>>]}

CodeownersLocations == {"CODEOWNERS", ".github/CODEOWNERS", "docs/OWNERS"}

\* owner_routing.codeowners_paths and the files found at the locations
CodeownersSetups ==
    {[codeowners_paths |-> <<>>, files |->
      [l \in CodeownersLocations |->
        IF l = "CODEOWNERS" THEN [kind |-> "missing", lines |-> <<>>]
        ELSE IF l = ".github/CODEOWNERS" THEN [kind |-> "missing", lines |-> <<>>]
        ELSE IF l = "docs/OWNERS" THEN [kind |-> "missing", lines |-> <<>>]
        ELSE [kind |-> "missing", lines |-> <<>>]]],
     [codeowners_paths |-> <<>>, files |->
      [l \in CodeownersLocations |->
        IF l = "CODEOWNERS" THEN [kind |-> "file", lines |->
        <<<<"s", "r", "c", "/", "*", " ", "@", "t", "e", "a", "m", "-", "a">>,
         <<"s", "r", "c", "/", "f", "o", "o", ".", "t", "s", " ", "@", "t", "e", "a", "m", "-", "b">>>>]
        ELSE IF l = ".github/CODEOWNERS" THEN [kind |-> "missing", lines |-> <<>>]
        ELSE IF l = "docs/OWNERS" THEN [kind |-> "missing", lines |-> <<>>]
        ELSE [kind |-> "missing", lines |-> <<>>]]],
     [codeowners_paths |-> <<"docs/OWNERS">>, files |->
      [l \in CodeownersLocations |->
        IF l = "CODEOWNERS" THEN [kind |-> "missing", lines |-> <<>>]
        ELSE IF l = ".github/CODEOWNERS" THEN [kind |-> "missing", lines |-> <<>>]
        ELSE IF l = "docs/OWNERS" THEN [kind |-> "file", lines |->
        <<<<"#", " ", "o", "w", "n", "e", "r", "s">>,
         <<>>,
         <<" ", " ", "s", "r", "c", "/", "f", "o", "o", ".", "t", "s", " ", " ", " ", "@", "t", "e", "a", "m", "-", "b">>,
         <<"s", "r", "c", "/", "*", " ", "@", "t", "e", "a", "m", "-", "a">>,
         <<"l", "o", "n", "e", "l", "y", "-", "p", "a", "t", "t", "e", "r", "n">>,
         <<"/", "d", "o", "c", "s", "/", " ", "@", "d", "o", "c", "s", " ", "@", "l", "e", "a", "d">>>>]
        ELSE [kind |-> "missing", lines |-> <<>>]]],
     [codeowners_paths |-> <<"docs/OWNERS", "CODEOWNERS">>, files |->
      [l \in CodeownersLocations |->
        IF l = "CODEOWNERS" THEN [kind |-> "file", lines |->
        <<<<"s", "r", "c", "/", "*", " ", "@", "t", "e", "a", "m", "-", "a">>,
         <<"s", "r", "c", "/", "f", "o", "o", ".", "t", "s", " ", "@", "t", "e", "a", "m", "-", "b">>>>]
        ELSE IF l = ".github/CODEOWNERS" THEN [kind |-> "missing", lines |-> <<>>]
        ELSE IF l = "docs/OWNERS" THEN [kind |-> "file", lines |->
        <<<<"*", ".", "m", "d", " ", "@", "d", "o", "c", "s">>>>]
        ELSE [kind |-> "missing", lines |-> <<>>]]],
     [codeowners_paths |-> <<"docs/OWNERS">>, files |->
      [l \in CodeownersLocations |->
        IF l = "CODEOWNERS" THEN [kind |-> "file", lines |->
        <<<<"s", "r", "c", "/", "*", " ", "@", "t", "e", "a", "m", "-", "a">>,
         <<"s", "r", "c", "/", "f", "o", "o", ".", "t", "s", " ", "@", "t", "e", "a", "m", "-", "b">>>>]
        ELSE IF l = ".github/CODEOWNERS" THEN [kind |-> "missing", lines |-> <<>>]
        ELSE IF l = "docs/OWNERS" THEN [kind |-> "unreadable", lines |-> <<>>]
        ELSE [kind |-> "missing", lines |-> <<>>]]],
     [codeowners_paths |-> <<>>, files |->
      [l \in CodeownersLocations |->
        IF l = "CODEOWNERS" THEN [kind |-> "missing", lines |-> <<>>]
        ELSE IF l = ".github/CODEOWNERS" THEN [kind |-> "file", lines |->
        <<<<"*", ".", "t", "s", " ", "@", "t", "s", "-", "t", "e", "a", "m">>,
         <<"s", "r", "c", "-", "l", "e", "g", "a", "c", "y", "/", " ", "@", "l", "e", "g", "a", "c", "y">>>>]
        ELSE IF l = "docs/OWNERS" THEN [kind |-> "missing", lines |-> <<>>]
        ELSE [kind |-> "missing", lines |-> <<>>]]]}

\* owner_routing.team_map, as its entries in key order
TeamMaps ==
    {<<>>,
     <<[prefix |-> <<"s", "r", "c", "/">>, owner |-> <<"t", "e", "a", "m", "-", "b", "e", "t", "a">>]>>,
     <<[prefix |-> <<"s", "r", "c", "/">>, owner |-> <<"c", "o", "r", "e">>], [prefix |-> <<"s", "r", "c", "/", "a", "p", "p", "/">>, owner |-> <<"t", "e", "a", "m", "-", "a", "p", "p">>]>>,
     <<[prefix |-> <<"d", "o", "c", "s", "/">>, owner |-> <<>>]>>,
     <<[prefix |-> <<"s", "r", "c">>, owner |-> <<"a", "l", "p", "h", "a">>], [prefix |-> <<".", "/", "s", "r", "c", "/">>, owner |-> <<"t", "e", "a", "m", "-", "b", "e", "t", "a">>], [prefix |-> <<"/">>, owner |-> <<"r", "o", "o", "t">>]>>}

FallbackOwners == {Undefined, <<>>, <<"c", "o", "r", "e", "-", "t", "e", "a", "m">>}

BlameAuthor == <<"c", "a", "r", "o", "l", " ", "<", "c", "@", "x", ".", "i", "o", ">">>
LogAuthor == <<"d", "a", "v", "e", " ", "<", "d", "@", "x", ".", "i", "o", ">">>

\* git blame by line: every lookup throws; every output lacks an author; one
\* line has an author, the others throwing or lacking one; or the lookup of
\* line 2 never returns
BlameAnswers ==
    {[l \in 1..(2 + MaxDepth) |-> GitThrows],
     [l \in 1..(2 + MaxDepth) |-> GitEmpty],
     [l \in 1..(2 + MaxDepth) |-> IF l = 2 THEN BlameAuthor ELSE GitThrows],
     [l \in 1..(2 + MaxDepth) |-> IF l = 3 THEN BlameAuthor ELSE GitEmpty],
     [l \in 1..(2 + MaxDepth) |-> IF l = 3 THEN BlameAuthor ELSE GitThrows],
     [l \in 1..(2 + MaxDepth) |-> IF l = 2 THEN GitHangs ELSE GitEmpty]}

CandidatePaths == {<<"s", "r", "c", "/", "f", "o", "o", ".", "t", "s">>, <<"s", "r", "c", "-", "l", "e", "g", "a", "c", "y", "/", "f", "o", "o", ".", "t", "s">>, <<"d", "o", "c", "s", "/", "a", ".", "m", "d">>, <<"s", "r", "c", "/", "a", "p", "p", "l", "i", "c", "a", "t", "i", "o", "n", "/", "x", ".", "t", "s">>}

\* git log by file: every lookup throws; every output is empty; two of the
\* files have a last commit; or the lookup of one file never returns
LogAnswers ==
    {[f \in CandidatePaths |-> GitThrows],
     [f \in CandidatePaths |-> GitEmpty],
     [f \in CandidatePaths |-> IF f \in {<<"d", "o", "c", "s", "/", "a", ".", "m", "d">>, SrcFooTs}
                                THEN LogAuthor ELSE GitThrows],
     [f \in CandidatePaths |-> IF f = SrcFooTs THEN GitHangs ELSE GitEmpty]}

OwnerInit ==
    /\ \E context \in OwnerContexts, setup \in CodeownersSetups, teamMap \in TeamMaps :
       \E depth \in 0..MaxDepth, fallback \in FallbackOwners :
       \E blame \in BlameAnswers, log \in LogAnswers :
          own = [context |-> context,
                 cfg |-> [codeowners_paths |-> setup.codeowners_paths,
                          blame_depth |-> depth, team_map |-> teamMap,
                          fallback_owner |-> fallback],
                 env |-> [files |-> setup.files, blame |-> blame, log |-> log],
                 out |-> [kind |-> "pending"]]
    /\ LedgerIdle
    /\ RouteIdle
    /\ FingerprintIdle
    /\ TriageIdle
    /\ RunIdle
    /\ CollectorIdle
    /\ AgentIdle

ResolveOwner ==
    /\ own.out.kind = "pending"
    /\ own' = [own EXCEPT !.out = resolveOwnerAssignment(own.context, own.cfg, own.env)]
    /\ UNCHANGED <<ledgerVars, routeVars, fpVars, triageVars, runVars, colVars, agentVars>>

OwnerNext == ResolveOwner

SpecOwner == OwnerInit /\ [][OwnerNext]_vars

\* the answer of each tier on the input of own
OwnerCandidates == buildCandidateFiles(own.context)
CodeownersRules == loadCodeowners(own.cfg.codeowners_paths, own.env.files).rules
CodeownersTier == findCodeownersMatch(OwnerCandidates, CodeownersRules)
BlameTier == resolveOwnerFromBlame(own.context, own.cfg.blame_depth, own.env.blame)
TeamMapTier == resolveOwnerFromTeamMap(OwnerCandidates, own.cfg.team_map)
LastCommitTier == resolveOwnerFromLastCommit(OwnerCandidates, own.env.log)

\* C4: an assignment that resolveOwnerAssignment returns is the answer of the
\* first tier that has one, in the order CODEOWNERS, blame, team map, last
\* commit, fallback, and never that of a lower tier when a higher tier has
\* one; its source and confidence are codeowners/high, blame/medium,
\* team_map/low, last_commit/low or fallback/low.
C4_TierOrder ==
    own.out.kind = "returned" =>
       /\ <<own.out.source, own.out.confidence>> \in
             {<<"codeowners", "high">>, <<"blame", "medium">>, <<"team_map", "low">>,
              <<"last_commit", "low">>, <<"fallback", "low">>}
       /\ CodeownersTier.found =>
             /\ own.out.source = "codeowners"
             /\ own.out.owner = Join(CodeownersTier.rule.owners, <<" ">>)
       /\ ~CodeownersTier.found /\ BlameTier.found =>
             /\ own.out.source = "blame"
             /\ own.out.owner = BlameTier.owner
       /\ ~CodeownersTier.found /\ ~BlameTier.found /\ TeamMapTier.found =>
             /\ own.out.source = "team_map"
             /\ own.out.owner = TeamMapTier.owner
       /\ ~CodeownersTier.found /\ ~BlameTier.found /\ ~TeamMapTier.found
             /\ LastCommitTier.found =>
             /\ own.out.source = "last_commit"
             /\ own.out.owner = LastCommitTier.owner
       /\ ~CodeownersTier.found /\ ~BlameTier.found /\ ~TeamMapTier.found
             /\ ~LastCommitTier.found =>
             own.out.source = "fallback"

\* C4 witness: blame answered while the team map and the last commit had an
\* answer too
C4_Witness ==
    /\ own.out.kind = "returned"
    /\ own.out.source = "blame"
    /\ own.out.confidence = "medium"
    /\ ~CodeownersTier.found
    /\ TeamMapTier.found
    /\ LastCommitTier.found

\* C5: for every failure context and configuration resolveOwnerAssignment
\* returns, without raising, an assignment whose owner is not empty; when no
\* tier answers it is the configured fallback owner, "unassigned" if that is
\* unset or empty, with source fallback, confidence low and reason
\* "fallback owner".
C5_AlwaysAssigned ==
    own.out.kind # "pending" =>
       /\ own.out.kind = "returned"
       /\ own.out.owner # <<>>
       /\ ~CodeownersTier.found /\ ~BlameTier.found /\ ~TeamMapTier.found
             /\ ~LastCommitTier.found =>
             /\ own.out.owner = IF own.cfg.fallback_owner \in {Undefined, <<>>}
                                THEN Unassigned ELSE own.cfg.fallback_owner
             /\ own.out.source = "fallback"
             /\ own.out.confidence = "low"
             /\ own.out.reason = [text |-> "fallback owner"]

\* the rules that match a file, by their position in rules
MatchingRules(rules, file) ==
    {i \in DOMAIN rules : RegExpTest(rules[i].regex, file)}

SetMax(S) == CHOOSE n \in S : \A m \in S : m <= n

\* C8: when some candidate file has a matching CODEOWNERS rule, the first
\* such candidate file decides and the last rule that matches it wins; the
\* assignment has source codeowners, confidence high and a reason naming the
\* rule's pattern, source path and line.  With src/* -> @team-a followed by
\* src/foo.ts -> @team-b, src/foo.ts resolves to @team-b.
C8_LastRuleWins ==
    own.out.kind = "returned" =>
       LET rules == CodeownersRules
           files == OwnerCandidates
           matching == [k \in DOMAIN files |-> MatchingRules(rules, files[k])]
       IN  /\ (\E k \in DOMAIN files : matching[k] # {}) =>
                 LET first == CHOOSE k \in DOMAIN files :
                                 /\ matching[k] # {}
                                 /\ \A j \in 1..(k - 1) : matching[j] = {}
                     rule == rules[SetMax(matching[first])]
                 IN  /\ own.out.source = "codeowners"
                     /\ own.out.confidence = "high"
                     /\ own.out.owner = Join(rule.owners, <<" ">>)
                     /\ own.out.reason = [text |-> "CODEOWNERS match:",
                                          pattern |-> rule.pattern,
                                          sourcePath |-> rule.sourcePath,
                                          lineNumber |-> rule.lineNumber]
           /\ (/\ Len(rules) = 2
               /\ rules[1].pattern = SrcStar /\ rules[1].owners = <<TeamA>>
               /\ rules[2].pattern = SrcFooTs /\ rules[2].owners = <<TeamB>>
               /\ files # <<>> /\ files[1] = SrcFooTs) =>
                 own.out.owner = TeamB
           /\ own.out.source = "codeowners" => \E k \in DOMAIN files : matching[k] # {}

\* C8 witness: src/* -> @team-a then src/foo.ts -> @team-b, both matching the
\* first candidate src/foo.ts, resolved to @team-b
C8_Witness ==
    /\ own.out.kind = "returned"
    /\ own.out.source = "codeowners"
    /\ own.out.owner = TeamB
    /\ LET rules == CodeownersRules
           files == OwnerCandidates
       IN  /\ files # <<>>
           /\ files[1] = SrcFooTs
           /\ Len(rules) = 2
           /\ rules[1].pattern = SrcStar
           /\ rules[2].pattern = SrcFooTs
           /\ MatchingRules(rules, SrcFooTs) = {1, 2}

\* a team-map prefix names a directory that contains the file
DirectoryPrefixMatches(prefix, file) ==
    /\ NormalizedPrefix(prefix) # <<>>
    /\ StartsWith(file, NormalizedPrefix(prefix) \o <<"/">>)

\* the team-map entries whose directory contains some candidate file
DirectoryMatches ==
    {i \in DOMAIN own.cfg.team_map :
        \E k \in DOMAIN OwnerCandidates :
            DirectoryPrefixMatches(own.cfg.team_map[i].prefix, OwnerCandidates[k])}

\* C9: when CODEOWNERS has no match and blame yields nothing, and some
\* team-map prefix matches some candidate file, the assignment has source
\* team_map, confidence low and the owner mapped to the longest matching
\* prefix over all candidate files and all prefixes.
C9_TeamMapLongest ==
    (/\ own.out.kind = "returned"
     /\ ~CodeownersTier.found
     /\ ~BlameTier.found
     /\ DirectoryMatches # {}) =>
       /\ own.out.source = "team_map"
       /\ own.out.confidence = "low"
       /\ \E i \in DirectoryMatches :
             /\ \A j \in DirectoryMatches :
                   Len(NormalizedPrefix(own.cfg.team_map[j].prefix))
                      <= Len(NormalizedPrefix(own.cfg.team_map[i].prefix))
             /\ own.out.owner = own.cfg.team_map[i].owner

\* the git answers with every throwing lookup replaced by one that gives
\* no answer
FailSoft(env) ==
    [env EXCEPT !.blame = [l \in DOMAIN @ |-> IF @[l] = GitThrows THEN GitEmpty ELSE @[l]],
                !.log = [f \in DOMAIN @ |-> IF @[f] = GitThrows THEN GitEmpty ELSE @[f]]]

\* C19: a git blame or git log lookup that throws never aborts owner
\* resolution: it counts as a lookup without an answer, so the outcome is the
\* one resolution has when each throwing lookup answers nothing: the
\* remaining candidate lines and files are tried and an unanswered tier falls
\* through to the next.
C19_LookupFailsSoft ==
    own.out.kind # "pending" =>
        own.out = resolveOwnerAssignment(own.context, own.cfg, FailSoft(own.env))

\* C19 witness: blame threw for the evidence line and the line before it and
\* named an author for the line after, and the assignment is that author's
C19_Witness ==
    /\ own.out.kind = "returned"
    /\ own.out.source = "blame"
    /\ own.env.blame[2] = GitThrows
    /\ own.env.blame[1] = GitThrows
    /\ own.out.reason.line = 3
    /\ own.out.owner = BlameAuthor

\* C20: resolveOwnerAssignment ends with an assignment (or raises) whatever
\* the git lookups do: none of them keeps it waiting without end.
C20_NeverBlocks ==
    own.out.kind # "blocked"

(***************************************************************************)
(* SpecTriage: two invocations of the triage command (src/index.ts) on     *)
(* failures that share a fingerprint, each in its own process, against one *)
(* persisted ledger.  The file reads and writes of the two interleave.     *)
(***************************************************************************)
Invocations == {1, 2}
TriageSig == "sigA"

\* the ledger file: missing, not JSON, or a document with its records
MissingFile == [kind |-> "missing", records |-> EmptyLedger]
CorruptFile == [kind |-> "corrupt", records |-> EmptyLedger]
Document(records) == [kind |-> "document", records |-> records]

\* a ledger file that exists and cannot be read, that holds the JSON text
\* null, a JSON document without records, and one whose records is a number
UnreadableFile == [kind |-> "unreadable", records |-> EmptyLedger]
NullFile == [kind |-> "null", records |-> EmptyLedger]
NoRecordsFile == [kind |-> "norecords", records |-> EmptyLedger]
ScalarRecordsFile == [kind |-> "scalar", records |-> EmptyLedger]

\* loadSignatureLedger(filePath): the ledger object it returns, as the
\* entries of its records and whether records is a map.  A missing file, a
\* throwing read or parse and a falsy parsed.records give { records: {} };
\* any other parsed document is returned as it is.
loadSignatureLedger(disk) ==
    IF disk.kind = "document" THEN [records |-> disk.records, isMap |-> TRUE]
    ELSE IF disk.kind = "scalar" THEN [records |-> EmptyLedger, isMap |-> FALSE]
    ELSE [records |-> EmptyLedger, isMap |-> TRUE]

\* saveSignatureLedger adding its increment to the attempts it finds on file
saveSignatureLedger_merge(disk, l) ==
    Document([s \in DOMAIN l |->
                 IF /\ disk.kind = "document"
                    /\ s \in DOMAIN disk.records
                    /\ disk.records[s].attempts >= l[s].attempts
                 THEN [l[s] EXCEPT !.attempts = disk.records[s].attempts + 1]
                 ELSE l[s]])

\* saveSignatureLedger keeping, of each record of the file and of the ledger
\* in memory, the copy with more attempts
saveSignatureLedger_union(disk, l) ==
    Document([s \in DOMAIN l \cup DOMAIN disk.records |->
                 IF s \notin DOMAIN l THEN disk.records[s]
                 ELSE IF s \in DOMAIN disk.records /\ disk.records[s].attempts > l[s].attempts
                 THEN disk.records[s]
                 ELSE l[s]])

\* saveSignatureLedger(filePath, ledger): the file is overwritten
saveSignatureLedger(disk, l) == Document(l)

\* what runTriageAgent resolves to, as far as the ledger update reads it
TriageResults ==
    [routingDecision : RoutingDecision, success : BOOLEAN, fixSummary : {"patched", ""}]

\* the outcome recorded for a TriageResult
OutcomeOf(result) ==
    IF result.routingDecision = "report_only" THEN "report-only"
    ELSE IF result.routingDecision = "flake_workflow" THEN "quarantine"
    ELSE IF result.success THEN "fix"
    ELSE "failed"

\* ledger files left by earlier runs; two more updates keep attempts <= MaxCount
TriageDisks ==
    {MissingFile, CorruptFile}
    \cup {Document(l) : l \in {il \in InitLedgers :
                                  TriageSig \in DOMAIN il => il[TriageSig].attempts <= MaxCount - 2}}

\* attempts of the fingerprint as an invocation starting now would find it
\* after pruning
AttemptsFound(disk, cfg, t) ==
    LET l == pruneExpiredSignatures(loadSignatureLedger(disk).records, cfg.ttl_days, t)
    IN  IF TriageSig \in DOMAIN l THEN l[TriageSig].attempts ELSE 0

NotStarted == [pc |-> "load", ledger |-> EmptyLedger, outcome |-> NoVal, resolution |-> NoVal]

TriageInit ==
    /\ \E disk \in TriageDisks, cfg \in Configs, owner \in [Invocations -> Owners] :
          triage = [disk |-> disk, cfg |-> cfg, now |-> MaxTime, owner |-> owner,
                    proc |-> [i \in Invocations |-> NotStarted],
                    base |-> AttemptsFound(disk, cfg, MaxTime),
                    overlapped |-> FALSE,
                    sig |-> [i \in Invocations |-> TriageSig],
                    found |-> [i \in Invocations |-> AttemptsFound(disk, cfg, MaxTime)]]
    /\ LedgerIdle
    /\ RouteIdle
    /\ FingerprintIdle
    /\ OwnerIdle
    /\ RunIdle
    /\ CollectorIdle
    /\ AgentIdle

\* an invocation that has read the ledger file and not yet written it
InCycle(i) == triage.proc[i].pc \in {"gate", "agent", "update", "save"}

\* const ledger = loadSignatureLedger(config.signature_ledger.path)
Load(i) ==
    /\ triage.proc[i].pc = "load"
    /\ triage' = [triage EXCEPT
                    !.proc[i].pc = "gate",
                    !.proc[i].ledger = loadSignatureLedger(triage.disk).records,
                    !.overlapped = @ \/ \E j \in Invocations \ {i} : InCycle(j)]
    /\ UNCHANGED <<ledgerVars, routeVars, fpVars, ownerVars, runVars, colVars, agentVars>>

\* shouldAttemptSignature(signature, ledger, config); when it blocks, the
\* outcome is report-only and the resolution is the reason
Gate(i) ==
    /\ triage.proc[i].pc = "gate"
    /\ LET signatureCheck == shouldAttemptSignature(triage.sig[i], triage.proc[i].ledger,
                                                    triage.cfg, triage.now)
       IN  triage' = [triage EXCEPT
                        !.proc[i].ledger = signatureCheck.ledger,
                        !.proc[i].pc = IF signatureCheck.allowed THEN "agent" ELSE "update",
                        !.proc[i].outcome = IF signatureCheck.allowed THEN NoVal
                                            ELSE "report-only",
                        !.proc[i].resolution =
                            IF signatureCheck.allowed THEN NoVal
                            ELSE IF Truthy(signatureCheck.reason) THEN signatureCheck.reason
                            ELSE "Signature attempt blocked"]
    /\ UNCHANGED <<ledgerVars, routeVars, fpVars, ownerVars, runVars, colVars, agentVars>>

\* const result = await runTriageAgent(context, config), and its outcome
RunAgent(i, result) ==
    /\ triage.proc[i].pc = "agent"
    /\ triage' = [triage EXCEPT
                    !.proc[i].pc = "update",
                    !.proc[i].outcome = OutcomeOf(result),
                    !.proc[i].resolution = result.fixSummary]
    /\ UNCHANGED <<ledgerVars, routeVars, fpVars, ownerVars, runVars, colVars, agentVars>>

\* updateSignatureLedger(signature, ledger, outcome, {owner, resolution})
Update(i) ==
    /\ triage.proc[i].pc = "update"
    /\ triage.sig[i] \in DOMAIN triage.proc[i].ledger =>
          triage.proc[i].ledger[triage.sig[i]].attempts < MaxCount
    /\ triage' = [triage EXCEPT
                    !.proc[i].pc = "save",
                    !.proc[i].ledger =
                        updateSignatureLedger(triage.sig[i], @, triage.proc[i].outcome,
                                              [owner |-> triage.owner[i],
                                               resolution |-> triage.proc[i].resolution,
                                               threadUrl |-> NoVal],
                                              triage.now)]
    /\ UNCHANGED <<ledgerVars, routeVars, fpVars, ownerVars, runVars, colVars, agentVars>>

\* saveSignatureLedger(config.signature_ledger.path, ledger)
Save(i) ==
    /\ triage.proc[i].pc = "save"
    /\ triage' = [triage EXCEPT
                    !.proc[i].pc = "done",
                    !.disk = saveSignatureLedger(triage.disk, triage.proc[i].ledger)]
    /\ UNCHANGED <<ledgerVars, routeVars, fpVars, ownerVars, runVars, colVars, agentVars>>

TriageNext ==
    \E i \in Invocations :
       \/ Load(i)
       \/ Gate(i)
       \/ \E result \in TriageResults : RunAgent(i, result)
       \/ Update(i)
       \/ Save(i)

SpecTriage == TriageInit /\ [][TriageNext]_vars

AllDone == \A i \in Invocations : triage.proc[i].pc = "done"

\* C10: the load, gate, update, save cycle is not protected against a
\* concurrent writer: once two invocations sharing a fingerprint have both
\* saved, the persisted attempts has grown by 2 if one saved before the other
\* loaded, and by 1 only (a lost update) if both loaded before either saved.
C10_LostUpdate ==
    AllDone =>
       /\ triage.disk.kind = "document"
       /\ TriageSig \in DOMAIN triage.disk.records
       /\ triage.disk.records[TriageSig].attempts =
             triage.base + (IF triage.overlapped THEN 1 ELSE 2)

\* C10 witness: both invocations have saved after interleaving, and the
\* persisted attempts is one above what they found
C10_Witness ==
    /\ AllDone
    /\ triage.overlapped
    /\ triage.base >= 1
    /\ triage.disk.records[TriageSig].attempts = triage.base + 1

(***************************************************************************)
(* SpecRun: triage invocations for one failure, one after the other, each  *)
(* a process of its own: buildFailureContext, routeFailure,                *)
(* computeSignature, resolveOwnerAssignment, the ledger cycle and the      *)
(* triage agent (src/index.ts, src/agent/orchestrator.ts).                 *)
(***************************************************************************)
MaxRuns == 3        \* invocations made one after the other

\* determineRouting(failureClass)
determineRouting(failureClass) ==
    IF failureClass = "deterministic" THEN "fix_attempt"
    ELSE IF failureClass = "flaky" THEN "flake_workflow"
    ELSE IF failureClass \in {"secrets", "permissions", "infra_outage", "dependency_registry"}
    THEN "report_only"
    ELSE "escalate"

\* the calls buildFailureContext makes, in its order
BuildFailureContextCalls ==
    <<"extractErrorSignature", "classifyFailureType", "classifyFailureClass",
      "determineRouting", "extractFailedCommand", "extractFilePaths",
      "getChangedFiles", "getRecentCommits", "generateFingerprint",
      "extractErrorMessages">>

\* the statements of the triage command from the context to the gate, swapped
\* so that the signature is computed before the failure is routed
TriageSteps_signatureFirst ==
    <<"buildFailureContext", "computeSignature", "routeFailure",
      "resolveOwnerAssignment", "loadSignatureLedger", "shouldAttemptSignature">>

\* the statements of the triage command from the context to the gate
TriageSteps ==
    <<"buildFailureContext", "routeFailure", "computeSignature",
      "resolveOwnerAssignment", "loadSignatureLedger", "shouldAttemptSignature">>

\* the statement that follows statement pc
After(pc) ==
    LET i == CHOOSE k \in DOMAIN TriageSteps : TriageSteps[k] = pc
    IN  TriageSteps[i + 1]

Thrown == [throws |-> TRUE, routingDecision |-> NoVal, success |-> FALSE, fixSummary |-> NoVal]
Resolved(routingDecision, success, fixSummary) ==
    [throws |-> FALSE, routingDecision |-> routingDecision, success |-> success,
     fixSummary |-> fixSummary]

\* runTriageAgent(context, config): what it resolves to, or that it rejects.
\* generateReportOnly awaits the OpenAI request outside any try; the fix
\* attempt is inside try/catch and always resolves.
runTriageAgent(routingDecision) ==
    IF routingDecision = "report_only"
    THEN {Thrown, Resolved("report_only", FALSE, "report"), Resolved("report_only", FALSE, "")}
    ELSE IF routingDecision = "flake_workflow"
    THEN {Resolved("flake_workflow", FALSE, "report")}
    ELSE IF routingDecision = "escalate"
    THEN {Resolved("escalate", FALSE, "Manual investigation required")}
    ELSE {Resolved(routingDecision, ok, "summary") : ok \in BOOLEAN}

\* the ledger file before the first invocation
RunDisks ==
    {MissingFile, UnreadableFile, CorruptFile, NullFile, NoRecordsFile, ScalarRecordsFile}
    \cup {Document(l) : l \in {il \in InitLedgers :
                                 /\ TriageSig \in DOMAIN il =>
                                       /\ il[TriageSig].lastSeen \in {NaN, MaxTime}
                                       /\ il[TriageSig].lastOwner = NoVal
                                 /\ "sigB" \in DOMAIN il => il["sigB"].attempts = 1}}

\* failure contexts, one for each routing decision of the default lists
RunContexts ==
    {[failureClass |-> "deterministic", failureType |-> "test"],
     [failureClass |-> "flaky", failureType |-> "test"],
     [failureClass |-> "secrets", failureType |-> "build"],
     [failureClass |-> "deterministic", failureType |-> "unknown"]}

DefaultRouting ==
    [report_only |-> DefaultReportOnly, flake_workflow |-> DefaultFlakeWorkflow,
     fix_attempt |-> DefaultFixAttempt]

\* a process that has not started: nothing in memory
Fresh(r) ==
    [r EXCEPT !.pc = TriageSteps[1], !.calls = <<>>, !.routingDecision = NoVal,
              !.ledger = EmptyLedger, !.isMap = TRUE, !.allowed = FALSE,
              !.outcome = NoVal, !.resolution = NoVal, !.start = r.disk,
              !.abandoned = FALSE]

RunInit ==
    /\ \E disk \in RunDisks, cfg \in Configs, context \in RunContexts :
          run = Fresh([disk |-> disk, cfg |-> cfg, now |-> MaxTime, context |-> context,
                       pc |-> NoVal, calls |-> NoVal, routingDecision |-> NoVal,
                       ledger |-> NoVal, isMap |-> NoVal, allowed |-> NoVal,
                       outcome |-> NoVal, resolution |-> NoVal,
                       start |-> NoVal, abandoned |-> NoVal,
                       runs |-> 1, passes |-> 0, pruned |-> FALSE, killed |-> FALSE,
                       blocks |-> 0, invoked |-> NaN])
    /\ LedgerIdle
    /\ RouteIdle
    /\ FingerprintIdle
    /\ OwnerIdle
    /\ TriageIdle
    /\ CollectorIdle
    /\ AgentIdle

RunStep(next) ==
    /\ run' = next
    /\ UNCHANGED <<ledgerVars, routeVars, fpVars, ownerVars, triageVars, colVars, agentVars>>

\* const context = await buildFailureContext(runContext)
RunBuildFailureContext ==
    /\ run.pc = "buildFailureContext"
    /\ RunStep([run EXCEPT !.pc = After(run.pc),
                           !.calls = @ \o BuildFailureContextCalls,
                           !.routingDecision = determineRouting(run.context.failureClass)])

\* context.routingDecision = routeFailure(context, config)
RunRouteFailure ==
    /\ run.pc = "routeFailure"
    /\ RunStep([run EXCEPT !.pc = After(run.pc),
                           !.calls = Append(@, "routeFailure"),
                           !.routingDecision = routeFailure(run.context, DefaultRouting)])

\* const signature = computeSignature(context)
RunComputeSignature ==
    /\ run.pc = "computeSignature"
    /\ RunStep([run EXCEPT !.pc = After(run.pc),
                           !.calls = Append(@, "computeSignature")])

\* const ownerAssignment = resolveOwnerAssignment(context, config)
RunResolveOwner ==
    /\ run.pc = "resolveOwnerAssignment"
    /\ RunStep([run EXCEPT !.pc = After(run.pc),
                           !.calls = Append(@, "resolveOwnerAssignment")])

\* const ledger = loadSignatureLedger(config.signature_ledger.path)
RunLoad ==
    /\ run.pc = "loadSignatureLedger"
    /\ LET loaded == loadSignatureLedger(run.disk)
       IN  RunStep([run EXCEPT !.pc = After(run.pc),
                               !.calls = Append(@, "loadSignatureLedger"),
                               !.ledger = loaded.records,
                               !.isMap = loaded.isMap])

\* const signatureCheck = shouldAttemptSignature(signature, ledger, config)
RunGate ==
    /\ run.pc = "shouldAttemptSignature"
    /\ LET signatureCheck == shouldAttemptSignature(TriageSig, run.ledger, run.cfg, run.now)
       IN  RunStep([run EXCEPT
                      !.pc = IF signatureCheck.allowed THEN "runTriageAgent"
                             ELSE "updateSignatureLedger",
                      !.calls = Append(@, "shouldAttemptSignature"),
                      !.ledger = signatureCheck.ledger,
                      !.allowed = signatureCheck.allowed,
                      !.blocks = IF signatureCheck.allowed THEN 0 ELSE @ + 1,
                      !.pruned = @ \/ (TriageSig \in DOMAIN run.ledger
                                       /\ TriageSig \notin DOMAIN signatureCheck.ledger),
                      !.outcome = IF signatureCheck.allowed THEN NoVal ELSE "report-only",
                      !.resolution =
                          IF signatureCheck.allowed THEN NoVal
                          ELSE IF Truthy(signatureCheck.reason) THEN signatureCheck.reason
                          ELSE "Signature attempt blocked"])

\* const result = await runTriageAgent(context, config); a rejection is
\* caught by the command's catch, which exits
RunAgentCall(result) ==
    /\ run.pc = "runTriageAgent"
    /\ result \in runTriageAgent(run.routingDecision)
    /\ RunStep([run EXCEPT
                  !.pc = IF result.throws THEN "exit" ELSE "updateSignatureLedger",
                  !.calls = Append(@, "runTriageAgent"),
                  !.passes = @ + 1,
                  !.outcome = IF result.throws THEN NoVal ELSE OutcomeOf(result),
                  !.resolution = result.fixSummary])

\* the update writing the ledger file as it goes
RunUpdate_writeThrough ==
    /\ run.pc = "updateSignatureLedger"
    /\ LET updated == updateSignatureLedger(
                          TriageSig, run.ledger, run.outcome,
                          [owner |-> "alice", resolution |-> run.resolution,
                           threadUrl |-> NoVal],
                          run.now)
       IN  RunStep(IF run.isMap
                   THEN [run EXCEPT !.pc = "saveSignatureLedger",
                                    !.calls = Append(@, "updateSignatureLedger"),
                                    !.ledger = updated,
                                    !.disk = saveSignatureLedger(run.disk, updated)]
                   ELSE [run EXCEPT !.pc = "exit",
                                    !.calls = Append(@, "updateSignatureLedger")])

\* updateSignatureLedger(signature, ledger, outcome, {owner, resolution});
\* the assignment to ledger.records[signature] throws when records is a number
RunUpdate ==
    /\ run.pc = "updateSignatureLedger"
    /\ RunStep(IF run.isMap
               THEN [run EXCEPT
                       !.pc = "saveSignatureLedger",
                       !.calls = Append(@, "updateSignatureLedger"),
                       !.ledger = updateSignatureLedger(
                                     TriageSig, @, run.outcome,
                                     [owner |-> "alice", resolution |-> run.resolution,
                                      threadUrl |-> NoVal],
                                     run.now)]
               ELSE [run EXCEPT !.pc = "exit",
                                !.calls = Append(@, "updateSignatureLedger")])

\* saveSignatureLedger(config.signature_ledger.path, ledger)
RunSave ==
    /\ run.pc = "saveSignatureLedger"
    /\ RunStep([run EXCEPT !.pc = "exit",
                           !.calls = Append(@, "saveSignatureLedger"),
                           !.disk = saveSignatureLedger(run.disk, run.ledger)])

\* the process is killed (cancelled job, signal) wherever it is
RunAbandon ==
    /\ run.pc # "exit"
    /\ RunStep([run EXCEPT !.pc = "exit", !.abandoned = TRUE, !.killed = TRUE])

\* process.exit, and the next invocation for the same failure
RunAgain ==
    /\ run.pc = "exit"
    /\ run.runs < MaxRuns
    /\ RunStep(Fresh([run EXCEPT !.runs = @ + 1, !.invoked = run.now]))

RunNext ==
    \/ RunBuildFailureContext
    \/ RunRouteFailure
    \/ RunComputeSignature
    \/ RunResolveOwner
    \/ RunLoad
    \/ RunGate
    \/ \E result \in UNION {runTriageAgent(d) : d \in RoutingDecision} : RunAgentCall(result)
    \/ RunUpdate
    \/ RunSave
    \/ RunAbandon
    \/ RunAgain

SpecRun == RunInit /\ [][RunNext]_vars

\* C11: over invocations made one after the other for one fingerprint whose
\* record is never pruned, at most max_attempts_per_signature invocations
\* pass the gate and run the triage agent (read here on the sequences in
\* which no invocation was killed from outside).
C11_BoundedRetries ==
    ~run.pruned /\ ~run.killed => run.passes <= run.cfg.max_attempts_per_signature

\* the positions of a call in the calls an invocation has made so far
CallsOf(name) == {i \in DOMAIN run.calls : run.calls[i] = name}

\* C13: the ledger file is changed only by saveSignatureLedger, which an
\* invocation calls once, as its last ledger operation, after the gate's
\* pruning and the update; the file of an invocation that has not called it,
\* abandoned or not, is exactly the file the invocation started with.
C13_SaveIsFinal ==
    LET saves == CallsOf("saveSignatureLedger")
    IN  /\ Cardinality(saves) <= 1
        /\ saves = {} => run.disk = run.start
        /\ saves # {} =>
              /\ saves = {Len(run.calls)}
              /\ run.pc = "exit"
              /\ \E g \in CallsOf("shouldAttemptSignature"), u \in CallsOf("updateSignatureLedger") :
                    \A v \in saves : g < u /\ u < v
              /\ run.disk = Document(run.ledger)

\* C13 witness: an invocation abandoned after it pruned and updated its
\* in-memory ledger, the file still what it was and unlike the ledger
C13_Witness ==
    /\ run.abandoned
    /\ CallsOf("updateSignatureLedger") # {}
    /\ run.start.kind = "document"
    /\ run.disk = run.start
    /\ run.disk.records # run.ledger
    /\ run.pruned

\* the function that carries out each step the ordering names
StepCall ==
    [extraction |-> "extractErrorSignature", classification |-> "classifyFailureClass",
     fingerprinting |-> "computeSignature", gating |-> "shouldAttemptSignature",
     owner |-> "resolveOwnerAssignment", routing |-> "routeFailure"]

\* the steps in order have each been called once, one after the other, by the
\* time the gate has been called; and none of them is called out of this order
InStrictSequence(order) ==
    /\ \A i, j \in DOMAIN order :
          i < j => \A a \in CallsOf(StepCall[order[i]]), b \in CallsOf(StepCall[order[j]]) : a < b
    /\ CallsOf("shouldAttemptSignature") # {} =>
          \A i \in DOMAIN order : Cardinality(CallsOf(StepCall[order[i]])) = 1

\* C14 as stated: the steps of an invocation run in the strict sequence
\* extraction, classification, fingerprinting, ledger gating, owner
\* resolution, routing.
C14_StatedOrder ==
    InStrictSequence(<<"extraction", "classification", "fingerprinting", "gating",
                       "owner", "routing">>)

\* C14 amended: the steps of an invocation run in the strict sequence
\* extraction, classification, routing, fingerprinting, owner resolution,
\* ledger gating, each once and none before one that precedes it.
C14_CodeOrder ==
    InStrictSequence(<<"extraction", "classification", "routing", "fingerprinting",
                       "owner", "gating">>)

\* C14 witness: an invocation whose gate has blocked the attempt, after the
\* failure was routed and an owner resolved
C14_Witness ==
    /\ CallsOf("shouldAttemptSignature") # {}
    /\ ~run.allowed
    /\ CallsOf("resolveOwnerAssignment") # {}
    /\ CallsOf("routeFailure") # {}
    /\ run.pc = "updateSignatureLedger"

\* C18: what loadSignatureLedger returns is the stored ledger when the file
\* is a well-formed ledger document and the empty ledger { records: {} }
\* otherwise; it never raises.
C18_LoadDegradesToEmpty ==
    run.pc = After("loadSignatureLedger") =>
        /\ run.isMap
        /\ run.ledger = IF run.disk.kind = "document" THEN run.disk.records ELSE EmptyLedger

(***************************************************************************)
(* Collector: buildEvidencePack (src/collector/evidence.ts) and the        *)
(* classifier of buildFailureContext (src/collector/types.ts).  A log is   *)
(* the sequence of its lines, logs.split("\n"): no pattern below matches   *)
(* across a line break ("." excludes it and no literal contains one).      *)
(***************************************************************************)
MaxLogLines == 2         \* lines of a classified log
MaxEvidenceLines == 4    \* lines of a log searched for file:line evidence

\* the character U+2715 (the cross mark of test reporters)
CrossMark == "<U+2715>"

\* the tokens of a regular expression: literal text, ".*" and "\d+"
Lit(s) == [t |-> "lit", s |-> s]
AnyRun == [t |-> "any", s |-> <<>>]
DigitRun == [t |-> "digits", s |-> <<>>]

\* the pattern matches text from position i on
RECURSIVE MatchTokens(_, _, _)
MatchTokens(tokens, text, i) ==
    IF tokens = <<>> THEN TRUE
    ELSE LET tok == Head(tokens)
         IN  IF tok.t = "lit"
             THEN /\ i + Len(tok.s) - 1 <= Len(text)
                  /\ text[i] = tok.s[1]
                  /\ SubSeq(text, i, i + Len(tok.s) - 1) = tok.s
                  /\ MatchTokens(Tail(tokens), text, i + Len(tok.s))
             ELSE IF tok.t = "any"
             THEN \E k \in i..(Len(text) + 1) : MatchTokens(Tail(tokens), text, k)
             ELSE \E n \in 1..RunLength(Drop(text, i - 1), Digit) :
                     MatchTokens(Tail(tokens), text, i + n)

\* the position of the leftmost match of the pattern in text, or 0
Search(pattern, text) ==
    LET starts == {i \in 1..(Len(text) + 1) : MatchTokens(pattern, text, i)}
    IN  IF starts = {} THEN 0 ELSE CHOOSE i \in starts : \A j \in starts : i <= j

\* pattern.test(text)
Test(pattern, text) == \E i \in 1..(Len(text) + 1) : MatchTokens(pattern, text, i)

\* a pattern with the i flag, on text in lower case
IgnoreCase(pattern) == [k \in DOMAIN pattern |-> [pattern[k] EXCEPT !.s = ToLowerCase(@)]]
TestIgnoreCase(pattern, text) == Test(IgnoreCase(pattern), ToLowerCase(text))

\* patterns.some(p => p.test(lowerLogs)), the patterns having the i flag
SomeTest(patterns, lines) ==
    LET lowerLogs == [l \in DOMAIN lines |-> ToLowerCase(lines[l])]
    IN  \E k \in DOMAIN patterns : \E l \in DOMAIN lines : Test(patterns[k], lowerLogs[l])

\* String.prototype.includes
Includes(text, part) == Search(<<Lit(part)>>, text) > 0

\* the job-name tokens of classifyFailureType, by the type they decide
JobNameTokens ==
    [test |-> {<<"t", "e", "s", "t">>, <<"j", "e", "s", "t">>, <<"v", "i", "t", "e", "s", "t">>},
     lint |-> {<<"l", "i", "n", "t">>, <<"e", "s", "l", "i", "n", "t">>},
     typecheck |-> {<<"t", "y", "p", "e", "c", "h", "e", "c", "k">>, <<"t", "s", "c">>},
     build |-> {<<"b", "u", "i", "l", "d">>}]

\* the log patterns of classifyFailureType, alternatives written out
LogTypePatterns ==
    [test |-> <<<<Lit(<<"t", "e", "s", "t", " ", "f", "a", "i", "l", "e", "d">>)>>,
               <<Lit(<<"t", "e", "s", "t", " ", "f", "a", "i", "l", "u", "r", "e">>)>>,
               <<Lit(<<"a", "s", "s", "e", "r", "t", "i", "o", "n">>)>>,
               <<Lit(<<"e", "x", "p", "e", "c", "t">>), AnyRun, Lit(<<"t", "o">>)>>,
               <<Lit(<<CrossMark>>)>>,
               <<Lit(<<"f", "a", "i", "l", "e", "d", " ", "t", "e", "s", "t", ":">>)>>,
               <<Lit(<<"f", "a", "i", "l", "e", "d", " ", "t", "e", "s", "t", "s", ":">>)>>>>,
     lint |-> <<<<Lit(<<"e", "s", "l", "i", "n", "t">>)>>,
               <<Lit(<<"p", "r", "e", "t", "t", "i", "e", "r">>)>>,
               <<Lit(<<"l", "i", "n", "t", " ", "e", "r", "r", "o", "r">>)>>,
               <<Lit(<<"l", "i", "n", "t", "i", "n", "g">>)>>>>,
     typecheck |-> <<<<Lit(<<"t", "s">>), DigitRun, Lit(<<":">>)>>,
                    <<Lit(<<"t", "y", "p", "e", " ", "e", "r", "r", "o", "r">>)>>,
                    <<Lit(<<"c", "a", "n", "n", "o", "t", " ", "f", "i", "n", "d", " ", "n", "a", "m", "e">>)>>,
                    <<Lit(<<"t", "y", "p", "e", " ", "'">>), AnyRun, Lit(<<"'", " ", "i", "s", " ", "n", "o", "t", " ", "a", "s", "s", "i", "g", "n", "a", "b", "l", "e">>)>>>>,
     build |-> <<<<Lit(<<"b", "u", "i", "l", "d", " ", "f", "a", "i", "l", "e", "d">>)>>,
                <<Lit(<<"b", "u", "i", "l", "d", " ", "e", "r", "r", "o", "r">>)>>,
                <<Lit(<<"c", "o", "m", "p", "i", "l", "e", " ", "e", "r", "r", "o", "r">>)>>,
                <<Lit(<<"m", "o", "d", "u", "l", "e", " ", "n", "o", "t", " ", "f", "o", "u", "n", "d">>)>>>>]

\* classifyFailureClass: secretsPatterns
secretsPatterns ==
    LET source ==
      <<<<Lit(<<"p", "e", "r", "m", "i", "s", "s", "i", "o", "n", " ", "d", "e", "n", "i", "e", "d">>)>>,
      <<Lit(<<"r", "e", "s", "o", "u", "r", "c", "e", " ", "n", "o", "t", " ", "a", "c", "c", "e", "s", "s", "i", "b", "l", "e">>)>>,
      <<Lit(<<"m", "i", "s", "s", "i", "n", "g", " ", "r", "e", "q", "u", "i", "r", "e", "d", " ", "s", "e", "c", "r", "e", "t">>)>>,
      <<Lit(<<"u", "n", "a", "b", "l", "e", " ", "t", "o", " ", "r", "e", "s", "o", "l", "v", "e", " ", "c", "r", "e", "d", "e", "n", "t", "i", "a", "l", "s">>)>>,
      <<Lit(<<"a", "u", "t", "h", "e", "n", "t", "i", "c", "a", "t", "i", "o", "n", " ", "f", "a", "i", "l", "e", "d">>)>>,
      <<Lit(<<"4", "0", "1", " ", "u", "n", "a", "u", "t", "h", "o", "r", "i", "z", "e", "d">>)>>,
      <<Lit(<<"4", "0", "3", " ", "f", "o", "r", "b", "i", "d", "d", "e", "n">>)>>,
      <<Lit(<<"E", "A", "C", "C", "E", "S">>)>>,
      <<Lit(<<"s", "e", "c", "r", "e", "t", " ">>), AnyRun, Lit(<<" ", "n", "o", "t", " ", "f", "o", "u", "n", "d">>)>>>>
    IN  [k \in DOMAIN source |-> IgnoreCase(source[k])]

\* classifyFailureClass: infraPatterns
infraPatterns ==
    LET source ==
      <<<<Lit(<<"4", "2", "9", " ", "t", "o", "o", " ", "m", "a", "n", "y", " ", "r", "e", "q", "u", "e", "s", "t", "s">>)>>,
      <<Lit(<<"5", "0", "3", " ", "s", "e", "r", "v", "i", "c", "e", " ", "u", "n", "a", "v", "a", "i", "l", "a", "b", "l", "e">>)>>,
      <<Lit(<<"5", "0", "2", " ", "b", "a", "d", " ", "g", "a", "t", "e", "w", "a", "y">>)>>,
      <<Lit(<<"E", "T", "I", "M", "E", "D", "O", "U", "T">>)>>,
      <<Lit(<<"E", "C", "O", "N", "N", "R", "E", "F", "U", "S", "E", "D">>)>>,
      <<Lit(<<"E", "N", "O", "T", "F", "O", "U", "N", "D">>)>>,
      <<Lit(<<"d", "n", "s", " ", "r", "e", "s", "o", "l", "u", "t", "i", "o", "n", " ", "f", "a", "i", "l", "e", "d">>)>>,
      <<Lit(<<"n", "e", "t", "w", "o", "r", "k", " ", "e", "r", "r", "o", "r">>)>>,
      <<Lit(<<"r", "a", "t", "e", " ", "l", "i", "m", "i", "t", " ", "e", "x", "c", "e", "e", "d", "e", "d">>)>>,
      <<Lit(<<"g", "i", "t", "h", "u", "b", " ", "a", "p", "i", " ", "r", "a", "t", "e">>)>>>>
    IN  [k \in DOMAIN source |-> IgnoreCase(source[k])]

\* classifyFailureClass: depPatterns
depPatterns ==
    LET source ==
      <<<<Lit(<<"n", "p", "m", " ", "e", "r", "r", "!", " ", "4", "0", "4">>)>>,
      <<Lit(<<"n", "p", "m", " ", "e", "r", "r", "!", " ", "5", "0", "3">>)>>,
      <<Lit(<<"c", "o", "u", "l", "d", " ", "n", "o", "t", " ", "r", "e", "s", "o", "l", "v", "e">>), AnyRun, Lit(<<"r", "e", "g", "i", "s", "t", "r", "y">>)>>,
      <<Lit(<<"f", "a", "i", "l", "e", "d", " ", "t", "o", " ", "f", "e", "t", "c", "h">>), AnyRun, Lit(<<"p", "a", "c", "k", "a", "g", "e">>)>>,
      <<Lit(<<"c", "h", "e", "c", "k", "s", "u", "m", " ", "m", "i", "s", "m", "a", "t", "c", "h">>)>>,
      <<Lit(<<"i", "n", "t", "e", "g", "r", "i", "t", "y", " ", "c", "h", "e", "c", "k", " ", "f", "a", "i", "l", "e", "d">>)>>,
      <<Lit(<<"p", "y", "p", "i">>), AnyRun, Lit(<<"u", "n", "a", "v", "a", "i", "l", "a", "b", "l", "e">>)>>,
      <<Lit(<<"c", "r", "a", "t", "e", "s", ".", "i", "o">>), AnyRun, Lit(<<"e", "r", "r", "o", "r">>)>>>>
    IN  [k \in DOMAIN source |-> IgnoreCase(source[k])]

\* classifyFailureClass: flakyPatterns
flakyPatterns ==
    LET source ==
      <<<<Lit(<<"f", "l", "a", "k", "y">>)>>,
      <<Lit(<<"i", "n", "t", "e", "r", "m", "i", "t", "t", "e", "n", "t">>)>>,
      <<Lit(<<"t", "i", "m", "e", "o", "u", "t">>), AnyRun, Lit(<<"t", "e", "s", "t">>)>>,
      <<Lit(<<"j", "e", "s", "t">>), AnyRun, Lit(<<"e", "x", "c", "e", "e", "d", "e", "d", " ", "t", "i", "m", "e", "o", "u", "t">>)>>,
      <<Lit(<<"r", "a", "c", "e", " ", "c", "o", "n", "d", "i", "t", "i", "o", "n">>)>>>>
    IN  [k \in DOMAIN source |-> IgnoreCase(source[k])]

\* extractErrorSignature: patterns, each followed by .*$ under the m flag
SignaturePatterns ==
    <<<<Lit(<<"E", "r", "r", "o", "r", ":">>)>>,
      <<Lit(<<"F", "A", "I", "L">>)>>,
      <<Lit(<<"e", "r", "r", "o", "r", "[", "E">>), DigitRun, Lit(<<"]", ":">>)>>,
      <<Lit(<<"T", "y", "p", "e", "E", "r", "r", "o", "r", ":">>)>>,
      <<Lit(<<"A", "s", "s", "e", "r", "t", "i", "o", "n", "E", "r", "r", "o", "r", ":">>)>>,
      <<Lit(<<"R", "e", "f", "e", "r", "e", "n", "c", "e", "E", "r", "r", "o", "r", ":">>)>>,
      <<Lit(<<"S", "y", "n", "t", "a", "x", "E", "r", "r", "o", "r", ":">>)>>,
      <<Lit(<<CrossMark>>)>>,
      <<Lit(<<"F", "A", "I", "L", "E", "D">>)>>>>

UnknownError == <<"U", "n", "k", "n", "o", "w", "n", " ", "e", "r", "r", "o", "r">>
ErrorWord == <<"e", "r", "r", "o", "r">>

\* the file extensions of FILE_LINE_PATTERN
Extensions ==
    {<<"j", "s">>,
     <<"j", "s", "x">>,
     <<"t", "s">>,
     <<"t", "s", "x">>,
     <<"p", "y">>,
     <<"g", "o">>,
     <<"r", "s">>,
     <<"j", "a", "v", "a">>,
     <<"c", "s">>,
     <<"c", "p", "p">>,
     <<"c">>,
     <<"r", "b">>,
     <<"p", "h", "p">>,
     <<"k", "t">>,
     <<"s", "w", "i", "f", "t">>,
     <<"s", "c", "a", "l", "a">>}

\* the keywords of scoreEvidenceWindow, in the order of the alternation
Keywords ==
    <<<<"e", "r", "r", "o", "r">>, <<"f", "a", "i", "l">>, <<"f", "a", "i", "l", "e", "d">>, <<"e", "x", "c", "e", "p", "t", "i", "o", "n">>, <<"t", "r", "a", "c", "e", "b", "a", "c", "k">>, <<"p", "a", "n", "i", "c">>>>

AppLine == <<" ", " ", " ", " ", "a", "t", " ", "s", "r", "c", "/", "a", "p", "p", ".", "t", "s", ":", "4", "2", ":", "3">>
ErrorLine == <<"E", "r", "r", "o", "r", ":", " ", "C", "a", "n", "n", "o", "t", " ", "r", "e", "a", "d", " ", "p", "r", "o", "p", "e", "r", "t", "y", " ", "'", "x", "'", " ", "o", "f", " ", "u", "n", "d", "e", "f", "i", "n", "e", "d">>
UtilsLine == <<" ", " ", " ", " ", "a", "t", " ", "s", "r", "c", "/", "u", "t", "i", "l", "s", ".", "t", "s", ":", "1", "7", ":", "1", "0">>
QuietLine == <<"o", "k">>
TwoFilesLine == <<"s", "e", "e", " ", "l", "i", "b", "/", "x", ".", "p", "y", ":", "7", ",", " ", "l", "i", "b", "/", "y", ".", "t", "e", "s", "t", ".", "g", "o", ":", "9">>
SrcAppTs == <<"s", "r", "c", "/", "a", "p", "p", ".", "t", "s">>
SrcUtilsTs == <<"s", "r", "c", "/", "u", "t", "i", "l", "s", ".", "t", "s">>

AssertionLine == <<"A", "s", "s", "e", "r", "t", "i", "o", "n", "E", "r", "r", "o", "r", ":", " ", "e", "x", "p", "e", "c", "t", "e", "d", " ", "5", " ", "t", "o", " ", "e", "q", "u", "a", "l", " ", "6">>
AssertionErrorName == <<"A", "s", "s", "e", "r", "t", "i", "o", "n", "E", "r", "r", "o", "r">>
Vitest == <<"v", "i", "t", "e", "s", "t">>

\* lines that carry the markers of the classifier
MarkerLines ==
    {AssertionLine,
     <<"P", "e", "r", "m", "i", "s", "s", "i", "o", "n", " ", "d", "e", "n", "i", "e", "d", " ", "(", "p", "u", "b", "l", "i", "c", "k", "e", "y", ")">>,
     <<"5", "0", "3", " ", "S", "e", "r", "v", "i", "c", "e", " ", "U", "n", "a", "v", "a", "i", "l", "a", "b", "l", "e">>,
     <<"n", "p", "m", " ", "E", "R", "R", "!", " ", "4", "0", "4", " ", "N", "o", "t", " ", "F", "o", "u", "n", "d">>,
     <<"T", "i", "m", "e", "o", "u", "t", " ", "i", "n", " ", "f", "l", "a", "k", "y", " ", "t", "e", "s", "t">>,
     <<"E", "S", "L", "i", "n", "t", " ", "f", "o", "u", "n", "d", " ", "2", " ", "p", "r", "o", "b", "l", "e", "m", "s">>,
     <<"T", "S", "2", "3", "0", "4", ":", " ", "C", "a", "n", "n", "o", "t", " ", "f", "i", "n", "d", " ", "n", "a", "m", "e", " ", "'", "x", "'">>,
     <<"B", "u", "i", "l", "d", " ", "f", "a", "i", "l", "e", "d">>,
     <<"o", "k">>}

\* the names of the failed jobs
JobNameLists ==
    {<<<<"u", "n", "i", "t", " ", "(", "v", "i", "t", "e", "s", "t", ")">>>>,
     <<<<"L", "i", "n", "t">>>>,
     <<<<"b", "u", "i", "l", "d">>, <<"t", "s", "c">>>>,
     <<<<"d", "e", "p", "l", "o", "y">>>>}

\* classifyFailureType(logs, jobs)
classifyFailureType(lines, jobNameList) ==
    LET jobNames == Join([k \in DOMAIN jobNameList |-> ToLowerCase(jobNameList[k])], <<" ">>)
        named(type) == \E token \in JobNameTokens[type] : Includes(jobNames, token)
        logged(type) == SomeTest(LogTypePatterns[type], lines)
    IN  IF named("test") THEN "test"
        ELSE IF named("lint") THEN "lint"
        ELSE IF named("typecheck") THEN "typecheck"
        ELSE IF named("build") THEN "build"
        ELSE IF logged("test") THEN "test"
        ELSE IF logged("lint") THEN "lint"
        ELSE IF logged("typecheck") THEN "typecheck"
        ELSE IF logged("build") THEN "build"
        ELSE "unknown"

\* classifyFailureClass with the outage patterns tried before the secrets ones
classifyFailureClass_infraFirst(lines) ==
    IF SomeTest(infraPatterns, lines) THEN "infra_outage"
    ELSE IF SomeTest(secretsPatterns, lines) THEN "secrets"
    ELSE IF SomeTest(depPatterns, lines) THEN "dependency_registry"
    ELSE IF SomeTest(flakyPatterns, lines) THEN "flaky"
    ELSE "deterministic"

\* classifyFailureClass(logs, jobs)
classifyFailureClass(lines) ==
    IF SomeTest(secretsPatterns, lines) THEN "secrets"
    ELSE IF SomeTest(infraPatterns, lines) THEN "infra_outage"
    ELSE IF SomeTest(depPatterns, lines) THEN "dependency_registry"
    ELSE IF SomeTest(flakyPatterns, lines) THEN "flaky"
    ELSE "deterministic"

\* .slice(0, 300)
SignatureLimit == 300
Slice(s, n) == SubSeq(s, 1, IF Len(s) < n THEN Len(s) ELSE n)

\* logs.match(pattern) for a pattern /...*$/m: from the leftmost match to the
\* end of its line; <<>> stands for no match (a match is never empty)
MatchToLineEnd(pattern, lines) ==
    LET hits == {l \in DOMAIN lines : Search(pattern, lines[l]) > 0}
    IN  IF hits = {} THEN <<>>
        ELSE LET l == CHOOSE h \in hits : \A g \in hits : h <= g
             IN  Drop(lines[l], Search(pattern, lines[l]) - 1)

\* extractErrorSignature(logs)
extractErrorSignature(lines) ==
    LET matching == {k \in DOMAIN SignaturePatterns :
                        MatchToLineEnd(SignaturePatterns[k], lines) # <<>>}
        errorLines == {l \in DOMAIN lines : TestIgnoreCase(<<Lit(ErrorWord)>>, lines[l])}
    IN  IF matching # {}
        THEN LET k == CHOOSE m \in matching : \A n \in matching : m <= n
             IN  Slice(MatchToLineEnd(SignaturePatterns[k], lines), SignatureLimit)
        ELSE IF errorLines # {}
        THEN Slice(lines[CHOOSE l \in errorLines : \A g \in errorLines : l <= g],
                   SignatureLimit)
        ELSE UnknownError

NotSpaceColon(text, i) == text[i] \notin WhiteSpace \cup {":"}       \* [^\s:]

\* Body of v, with v evaluated once
With(v, Body(_)) == CHOOSE r \in {Body(x) : x \in {v}} : TRUE

\* where the lazy [^\s:]+? that starts at position s of text stops: the first
\* "." that an extension, ":" and a digit follow; 0 when there is none
FileLineDot(text, s) ==
    LET first(dots) == IF dots = {} THEN 0 ELSE CHOOSE d \in dots : \A e \in dots : d <= e
    IN  With({p \in (s + 1)..Len(text) :
                /\ text[p] = "."
                /\ \A i \in s..(p - 1) : NotSpaceColon(text, i)
                /\ \E ext \in Extensions :
                      /\ p + Len(ext) + 2 <= Len(text)
                      /\ SubSeq(text, p + 1, p + Len(ext)) = ext
                      /\ text[p + Len(ext) + 1] = ":"
                      /\ text[p + Len(ext) + 2] \in Digit},
             first)

\* the match of FILE_LINE_PATTERN that starts at position s of text and has
\* its "." at p: \d+ takes every digit and (?::\d+)? a further ":digits"
FileLineAt(text, s, p) ==
    LET groups(colon) ==
            LET digits == RunLength(Drop(text, colon), Digit)
                after == colon + digits + 1
                column == IF after <= Len(text) /\ text[after] = ":"
                          THEN RunLength(Drop(text, after), Digit) ELSE 0
            IN  [file |-> SubSeq(text, s, colon - 1),
                 line |-> SubSeq(text, colon + 1, colon + digits),
                 matchedText |-> SubSeq(text, s, IF column > 0 THEN after + column
                                                 ELSE colon + digits),
                 end |-> IF column > 0 THEN after + column ELSE colon + digits]
    IN  With(CHOOSE c \in (p + 2)..Len(text) :
                 SubSeq(text, p + 1, c - 1) \in Extensions /\ text[c] = ":",
             groups)

\* [...line.matchAll(FILE_LINE_PATTERN)], searching from position from: the
\* leftmost start of a match, and on from the end of that match
RECURSIVE MatchAll(_, _)
MatchAll(text, from) ==
    LET rest(m) == <<m>> \o MatchAll(text, m.end + 1)
        leftmost(starts) ==
            IF starts = {} THEN <<>>
            ELSE LET at(s) == With(FileLineAt(text, s, FileLineDot(text, s)), rest)
                 IN  With(CHOOSE a \in starts : \A b \in starts : a <= b, at)
    IN  With({s \in from..Len(text) : FileLineDot(text, s) > 0}, leftmost)

\* window.match(keywords).length on one line: matches found left to right,
\* none overlapping another
RECURSIVE CountKeywords(_, _)
CountKeywords(text, i) ==
    IF i > Len(text) THEN 0
    ELSE LET found == {k \in DOMAIN Keywords : MatchTokens(<<Lit(Keywords[k])>>, text, i)}
         IN  IF found = {} THEN CountKeywords(text, i + 1)
             ELSE LET k == CHOOSE a \in found : \A b \in found : a <= b
                  IN  1 + CountKeywords(text, i + Len(Keywords[k]))

RECURSIVE SumKeywords(_, _, _)
SumKeywords(lines, first, last) ==
    IF first > last THEN 0
    ELSE CountKeywords(ToLowerCase(lines[first]), 1) + SumKeywords(lines, first + 1, last)

\* the window running to the third line after the match
scoreEvidenceWindow_threeAfter(lines, index) ==
    LET windowStart == IF index - 2 < 1 THEN 1 ELSE index - 2
        windowEnd == IF index + 3 > Len(lines) THEN Len(lines) ELSE index + 3
    IN  1 + SumKeywords(lines, windowStart, windowEnd)

\* scoreEvidenceWindow(lines, index): the lines two before to two after
scoreEvidenceWindow(lines, index) ==
    LET windowStart == IF index - 2 < 1 THEN 1 ELSE index - 2
        windowEnd == IF index + 2 > Len(lines) THEN Len(lines) ELSE index + 2
    IN  1 + SumKeywords(lines, windowStart, windowEnd)

\* the matches of every line, in the order they are pushed; index is the
\* loop variable i, kept with the match
RECURSIVE CollectMatches(_, _)
CollectMatches(lines, i) ==
    IF i > Len(lines) THEN <<>>
    ELSE LET scored(lineMatches) ==
                 LET push(score) ==
                         [k \in DOMAIN lineMatches |->
                             [file |-> lineMatches[k].file, line |-> lineMatches[k].line,
                              matchedText |-> lineMatches[k].matchedText,
                              score |-> score, index |-> i]]
                 IN  IF lineMatches = <<>> THEN <<>>
                     ELSE With(scoreEvidenceWindow(lines, i), push)
         IN  With(MatchAll(lines[i], 1), scored) \o CollectMatches(lines, i + 1)

\* a sort that puts a match in front of the matches of equal score
RECURSIVE InsertByScore_beforeEqual(_, _)
InsertByScore_beforeEqual(sorted, m) ==
    IF sorted = <<>> THEN <<m>>
    ELSE IF Head(sorted).score > m.score
    THEN <<Head(sorted)>> \o InsertByScore_beforeEqual(Tail(sorted), m)
    ELSE <<m>> \o sorted

\* matches.sort((a, b) => b.score - a.score): Array.prototype.sort is stable,
\* a match goes behind the matches of equal or higher score before it
RECURSIVE InsertByScore(_, _)
InsertByScore(sorted, m) ==
    IF sorted = <<>> THEN <<m>>
    ELSE IF Head(sorted).score >= m.score
    THEN <<Head(sorted)>> \o InsertByScore(Tail(sorted), m)
    ELSE <<m>> \o sorted

RECURSIVE SortByScore(_)
SortByScore(matches) ==
    IF matches = <<>> THEN <<>>
    ELSE LET insertLast(sorted) == InsertByScore(sorted, matches[Len(matches)])
         IN  With(SortByScore(SubSeq(matches, 1, Len(matches) - 1)), insertLast)

NoEvidence == [found |-> FALSE]

\* findBestFileLineMatch(lines)
findBestFileLineMatch(lines) ==
    LET first(best) == [found |-> TRUE, file |-> best.file, line |-> best.line,
                        matchedText |-> best.matchedText,
                        score |-> best.score, index |-> best.index]
        sortedFirst(matches) ==
            IF matches = <<>> THEN NoEvidence ELSE With(SortByScore(matches)[1], first)
    IN  With(CollectMatches(lines, 1), sortedFirst)

\* extractExcerpt(lines, matchedLine): the lines of the excerpt, which the
\* code joins with "\n"
extractExcerpt(lines, matchedLine) ==
    LET holding == {i \in DOMAIN lines : Includes(lines[i], matchedLine)}
        around(index) ==
            SubSeq(lines, IF index - 5 < 1 THEN 1 ELSE index - 5,
                          IF index + 5 > Len(lines) THEN Len(lines) ELSE index + 5)
        firstHolding(found) ==
            IF matchedLine # Undefined /\ found # {}
            THEN around(CHOOSE i \in found : \A j \in found : i <= j)
            ELSE SubSeq(lines, IF Len(lines) - 9 < 1 THEN 1 ELSE Len(lines) - 9, Len(lines))
    IN  IF lines = <<>> THEN Undefined
        ELSE With(IF matchedLine = Undefined THEN {} ELSE holding, firstHolding)

\* buildEvidencePack(logs, failedJobs): file and line of the best match,
\* the excerpt (left out when its text is empty), job and step
buildEvidencePack(lines, failedJobs) ==
    LET pack(bestMatch) ==
            LET excerpt == extractExcerpt(lines, IF bestMatch.found THEN bestMatch.matchedText
                                                 ELSE Undefined)
                rest == [excerpt |-> IF excerpt \in {<<>>, <<<<>>>>} THEN Undefined ELSE excerpt,
                         job |-> IF failedJobs = <<>> THEN Undefined ELSE failedJobs[1].jobName,
                         step |-> IF failedJobs = <<>> \/ failedJobs[1].failedSteps = <<>>
                                  THEN Undefined
                                  ELSE failedJobs[1].failedSteps[1].stepName]
            IN  IF bestMatch.found
                THEN [found |-> TRUE, file |-> bestMatch.file, line |-> bestMatch.line,
                      matchedText |-> bestMatch.matchedText, score |-> bestMatch.score,
                      index |-> bestMatch.index, excerpt |-> rest.excerpt,
                      job |-> rest.job, step |-> rest.step]
                ELSE [found |-> FALSE, excerpt |-> rest.excerpt,
                      job |-> rest.job, step |-> rest.step]
    IN  With(findBestFileLineMatch(lines), pack)

(***************************************************************************)
(* SpecCollector: evidence and classification of the logs below.           *)
(***************************************************************************)
RECURSIVE LogsOver(_, _)
LogsOver(alphabet, n) ==
    IF n = 0 THEN {<<>>}
    ELSE LET shorter == LogsOver(alphabet, n - 1)
         IN  shorter \cup {Append(l, x) : l \in {s \in shorter : Len(s) = n - 1}, x \in alphabet}

\* a stack trace line far from any failure keyword and, ten lines later, an
\* Error: line followed by another stack trace line
ExampleLog ==
    <<AppLine>> \o [i \in 1..9 |-> QuietLine] \o <<ErrorLine, UtilsLine>>

\* a line with two keywords in capitals and in a longer word, then a match
FailedLine == <<"F", "A", "I", "L", "E", "D", ":", " ", "2", " ", "t", "e", "s", "t", "s", " ", "f", "a", "i", "l", "e", "d">>
FailedLog == <<FailedLine, AppLine>>

\* the file:line of the first line again on the last line, after Error
ErrorAtAppLine == <<"E", "r", "r", "o", "r", " ", "a", "t", " ", "s", "r", "c", "/", "a", "p", "p", ".", "t", "s", ":", "4", "2", ":", "3">>
RepeatedLog == <<AppLine>> \o [i \in 1..9 |-> QuietLine] \o <<ErrorAtAppLine>>

\* a match on the first line of eight, and eleven lines without a match
LongTailLog == <<AppLine>> \o [i \in 1..7 |-> QuietLine]
NoMatchLog == <<ErrorLine>> \o [i \in 1..10 |-> QuietLine]

\* failedSteps of the failed job of each name: none, one step or two
FailedStepsOf(jobName) ==
    IF jobName = <<"L", "i", "n", "t">> THEN <<>>
    ELSE IF jobName = <<"b", "u", "i", "l", "d">>
    THEN <<[stepName |-> <<"I", "n", "s", "t", "a", "l", "l">>], [stepName |-> <<"C", "o", "m", "p", "i", "l", "e">>]>>
    ELSE <<[stepName |-> <<"R", "u", "n", " ", "t", "e", "s", "t", "s">>]>>

FailedJobsOf(jobNameList) ==
    [i \in DOMAIN jobNameList |->
        [jobName |-> jobNameList[i], failedSteps |-> FailedStepsOf(jobNameList[i])]]

EvidenceLogs ==
    {ExampleLog, FailedLog, RepeatedLog, LongTailLog, NoMatchLog}
    \cup (LogsOver({AppLine, ErrorLine, QuietLine, TwoFilesLine}, MaxEvidenceLines) \ {<<>>})

ClassifiedLogs == LogsOver(MarkerLines, MaxLogLines) \ {<<>>}

Pending == <<"<pending>">>

CollectorInit ==
    /\ \E input \in {[lines |-> l, jobNames |-> <<>>] : l \in EvidenceLogs}
                    \cup {[lines |-> l, jobNames |-> j] : l \in ClassifiedLogs, j \in JobNameLists} :
          col = [lines |-> input.lines, jobNames |-> input.jobNames,
                 failedJobs |-> FailedJobsOf(input.jobNames),
                 evidence |-> [found |-> FALSE, pending |-> TRUE],
                 failureType |-> "pending", failureClass |-> "pending",
                 errorSignature |-> Pending]
    /\ LedgerIdle
    /\ RouteIdle
    /\ FingerprintIdle
    /\ OwnerIdle
    /\ TriageIdle
    /\ RunIdle
    /\ AgentIdle

\* const evidence = buildEvidencePack(logs, failedJobs)
BuildEvidence ==
    /\ col.evidence = [found |-> FALSE, pending |-> TRUE]
    /\ col' = [col EXCEPT !.evidence = buildEvidencePack(col.lines, col.failedJobs)]
    /\ UNCHANGED <<ledgerVars, routeVars, fpVars, ownerVars, triageVars, runVars, agentVars>>

\* errorSignature, failureType and failureClass of buildFailureContext
ClassifyFailure ==
    /\ col.failureType = "pending"
    /\ col' = [col EXCEPT !.errorSignature = extractErrorSignature(col.lines),
                          !.failureType = classifyFailureType(col.lines, col.jobNames),
                          !.failureClass = classifyFailureClass(col.lines)]
    /\ UNCHANGED <<ledgerVars, routeVars, fpVars, ownerVars, triageVars, runVars, agentVars>>

CollectorNext ==
    \/ BuildEvidence
    \/ ClassifyFailure

SpecCollector == CollectorInit /\ [][CollectorNext]_vars

\* C15: the evidence is a file:line match of the highest window score, and
\* of the matches with that score one on the earliest line; no evidence only
\* when the log has no match; for the example log it is src/utils.ts line 17.
C15_BestMatch ==
    col.evidence # [found |-> FALSE, pending |-> TRUE] =>
        LET matches == CollectMatches(col.lines, 1)
            best == col.evidence
        IN  /\ best.found <=> matches # <<>>
            /\ best.found =>
                 /\ \E k \in DOMAIN matches :
                       /\ matches[k].file = best.file
                       /\ matches[k].line = best.line
                       /\ matches[k].index = best.index
                       /\ matches[k].score = best.score
                 /\ \A k \in DOMAIN matches :
                       /\ matches[k].score <= best.score
                       /\ matches[k].score = best.score => best.index <= matches[k].index
            /\ col.lines = ExampleLog =>
                 /\ best.found
                 /\ best.file = SrcUtilsTs
                 /\ best.line = <<"1", "7">>

\* C15 witness: the example log, its evidence src/utils.ts:17 on the last line
C15_Witness ==
    /\ col.lines = ExampleLog
    /\ col.evidence.found
    /\ col.evidence.file = SrcUtilsTs
    /\ col.evidence.index = Len(ExampleLog)

NoClassMarkers(lines) ==
    /\ ~SomeTest(secretsPatterns, lines)
    /\ ~SomeTest(infraPatterns, lines)
    /\ ~SomeTest(depPatterns, lines)
    /\ ~SomeTest(flakyPatterns, lines)

\* C16: a failure whose job name contains "vitest" and whose log has the line
\* "AssertionError: expected 5 to equal 6" and no secrets, outage, registry or
\* flaky marker is classified test and deterministic, and its error signature
\* is not empty and contains "AssertionError".
C16_AssertionScenario ==
    /\ col.failureType # "pending"
    /\ \E k \in DOMAIN col.jobNames : Includes(col.jobNames[k], Vitest)
    /\ \E l \in DOMAIN col.lines : col.lines[l] = AssertionLine
    /\ NoClassMarkers(col.lines)
    => /\ col.failureType = "test"
       /\ col.failureClass = "deterministic"
       /\ col.errorSignature # <<>>
       /\ Includes(col.errorSignature, AssertionErrorName)

\* the first type of the order for which the test holds, or none
FirstOf(order, holds(_)) ==
    LET hits == {k \in DOMAIN order : holds(order[k])}
    IN  IF hits = {} THEN "none" ELSE order[CHOOSE k \in hits : \A j \in hits : k <= j]

\* C17: failureType is the first of test, lint, typecheck, build that a job
\* name token decides, or when no job name decides the first of them that a
\* log pattern decides, else unknown; failureClass is the first of secrets,
\* infra_outage, dependency_registry, flaky whose patterns match, else
\* deterministic, and never permissions or unknown.
C17_FirstMatchWins ==
    col.failureType # "pending" =>
        LET jobNames == Join([k \in DOMAIN col.jobNames |-> ToLowerCase(col.jobNames[k])],
                             <<" ">>)
            named(type) == \E token \in JobNameTokens[type] : Includes(jobNames, token)
            logged(type) == SomeTest(LogTypePatterns[type], col.lines)
            order == <<"test", "lint", "typecheck", "build">>
            byName == FirstOf(order, named)
            byLog == FirstOf(order, logged)
            classPatterns == [secrets |-> secretsPatterns, infra_outage |-> infraPatterns,
                              dependency_registry |-> depPatterns, flaky |-> flakyPatterns]
            marked(class) == SomeTest(classPatterns[class], col.lines)
            byMarker == FirstOf(<<"secrets", "infra_outage", "dependency_registry", "flaky">>,
                                marked)
        IN  /\ col.failureType = IF byName # "none" THEN byName
                                 ELSE IF byLog # "none" THEN byLog ELSE "unknown"
            /\ col.failureClass = IF byMarker # "none" THEN byMarker ELSE "deterministic"
            /\ col.failureClass \notin {"permissions", "unknown"}

\* C17 witness: a log with an outage line before a secrets line, classified
\* secrets; its job names give typecheck although "build" comes first in them
C17_Witness ==
    /\ col.failureClass = "secrets"
    /\ Len(col.lines) = 2
    /\ TestIgnoreCase(infraPatterns[2], col.lines[1])
    /\ TestIgnoreCase(secretsPatterns[1], col.lines[2])
    /\ col.failureType = "typecheck"
    /\ Len(col.jobNames) = 2
    /\ Includes(ToLowerCase(col.jobNames[1]), <<"b", "u", "i", "l", "d">>)

(***************************************************************************)
(* Verifier: verifyFix and findAllowedCommand, src/agent/verifier.ts       *)
(***************************************************************************)
MaxAllowed == 2     \* allowed_commands holds at most MaxAllowed entries

Null == <<"<null>">>

\* String.prototype.split(" ")[0]
FirstWord(s) ==
    IF \E i \in DOMAIN s : s[i] = " "
    THEN SubSeq(s, 1, (CHOOSE i \in DOMAIN s : s[i] = " " /\ \A j \in 1..(i - 1) : s[j] # " ") - 1)
    ELSE s

\* the first pattern of the list, in list order, that passes the test, or null
FirstPattern(allowed, passes(_)) ==
    IF \E i \in DOMAIN allowed : passes(allowed[i])
    THEN allowed[CHOOSE i \in DOMAIN allowed :
                    passes(allowed[i]) /\ \A j \in 1..(i - 1) : ~passes(allowed[j])]
    ELSE Null

\* the prefix pass answers with the command as it was asked for
findAllowedCommand_echo(original, allowed) ==
    LET normalizedOriginal == ToLowerCase(Trim(original))
        Direct(pattern) == normalizedOriginal = ToLowerCase(pattern)
        Prefix(pattern) == StartsWith(normalizedOriginal, ToLowerCase(pattern))
        Base(pattern) == FirstWord(normalizedOriginal) = ToLowerCase(FirstWord(pattern))
    IN  IF FirstPattern(allowed, Direct) # Null THEN FirstPattern(allowed, Direct)
        ELSE IF FirstPattern(allowed, Prefix) # Null THEN original
        ELSE FirstPattern(allowed, Base)

findAllowedCommand(original, allowed) ==
    LET normalizedOriginal == ToLowerCase(Trim(original))
        Direct(pattern) == normalizedOriginal = ToLowerCase(pattern)
        Prefix(pattern) == StartsWith(normalizedOriginal, ToLowerCase(pattern))
        Base(pattern) == FirstWord(normalizedOriginal) = ToLowerCase(FirstWord(pattern))
    IN  IF FirstPattern(allowed, Direct) # Null THEN FirstPattern(allowed, Direct)
        ELSE IF FirstPattern(allowed, Prefix) # Null THEN FirstPattern(allowed, Prefix)
        ELSE FirstPattern(allowed, Base)

\* what execSync does with the command: it returns, or it throws an error
\* whose status is the exit code (absent when the child was killed)
ExecOutcomes ==
    {[kind |-> "returns", status |-> 0]} \cup
    [kind : {"throws"}, status : {NaN, 0, 1, 2}]

\* ran: the string handed to execSync, null when execSync is not reached
verifyFix(originalCommand, allowedCommands, exec) ==
    LET command == findAllowedCommand(originalCommand, allowedCommands)
    IN  IF command = Null \/ command = <<>>
        THEN [passed |-> FALSE, command |-> originalCommand, exitCode |-> -1, ran |-> Null]
        ELSE IF exec.kind = "returns"
        THEN [passed |-> TRUE, command |-> command, exitCode |-> 0, ran |-> command]
        ELSE [passed |-> FALSE, command |-> command,
              exitCode |-> IF exec.status = NaN \/ exec.status = 0 THEN 1 ELSE exec.status,
              ran |-> command]

NpmTest == <<"n", "p", "m", " ", "t", "e", "s", "t">>
NpmRunLint == <<"n", "p", "m", " ", "r", "u", "n", " ", "l", "i", "n", "t">>
AllowedPatterns == {NpmTest, NpmRunLint, <<"N", "p", "x", " ", "J", "e", "s", "t">>, <<>>}

OriginalCommands ==
    {NpmTest, <<" ", " ", "N", "P", "M", " ", "T", "E", "S", "T", " ">>, <<"n", "p", "m", " ", "t", "e", "s", "t", " ", "-", "-", " ", "-", "-", "c", "o", "v", "e", "r", "a", "g", "e">>, <<"n", "p", "m", " ", "r", "u", "n", " ", "e", "v", "i", "l">>, <<"r", "m", " ", "-", "r", "f", " ", "/">>, <<"n", "p", "x", " ", "j", "e", "s", "t", " ", "-", "-", "c", "i">>, <<>>}

AllowLists == UNION {[1..n -> AllowedPatterns] : n \in 0..MaxAllowed}

VerifyInit ==
    /\ agent \in [pc : {"verifyFix"}, originalCommand : OriginalCommands,
                  allowedCommands : AllowLists]
    /\ LedgerIdle
    /\ RouteIdle
    /\ FingerprintIdle
    /\ OwnerIdle
    /\ TriageIdle
    /\ RunIdle
    /\ CollectorIdle

VerifyFix(exec) ==
    /\ agent.pc = "verifyFix"
    /\ agent' = [pc |-> "verified", originalCommand |-> agent.originalCommand,
                 allowedCommands |-> agent.allowedCommands,
                 result |-> verifyFix(agent.originalCommand, agent.allowedCommands, exec)]
    /\ UNCHANGED <<ledgerVars, routeVars, fpVars, ownerVars, triageVars, runVars, colVars>>

VerifyNext == \E exec \in ExecOutcomes : VerifyFix(exec)

SpecVerify == VerifyInit /\ [][VerifyNext]_vars

\* C21: verifyFix hands execSync only a string that is an element of the
\* allowed_commands list; otherwise it runs nothing and answers
\* passed = false with exitCode -1.
C21_OnlyAllowedCommands ==
    agent.pc = "verified" =>
        LET r == agent.result
            allowed == agent.allowedCommands
        IN  \/ r.ran # Null /\ \E i \in DOMAIN allowed : allowed[i] = r.ran
            \/ r.ran = Null /\ r.passed = FALSE /\ r.exitCode = -1

\* a command that is not on the list was asked for, and the listed command
\* sharing its first word was run in its place
C21_Witness ==
    /\ agent.pc = "verified"
    /\ agent.originalCommand = <<"n", "p", "m", " ", "r", "u", "n", " ", "e", "v", "i", "l">>
    /\ agent.result.ran = NpmTest
    /\ \A i \in DOMAIN agent.allowedCommands :
           ~StartsWith(agent.originalCommand, agent.allowedCommands[i])

(***************************************************************************)
(* SpecOwner: the blame tier                                               *)
(***************************************************************************)
\* the blame tier is reached: CODEOWNERS was loaded and matched no candidate
BlameTierReached ==
    LET codeowners == loadCodeowners(own.cfg.codeowners_paths, own.env.files)
    IN  /\ own.out.kind # "pending"
        /\ ~codeowners.throws
        /\ ~findCodeownersMatch(buildCandidateFiles(own.context), codeowners.rules).found

\* L, then L-k and L+k for k = 1..last, the non-positive numbers left out
RECURSIVE LineOrder(_, _)
LineOrder(L, last) ==
    IF last <= 0 THEN (IF L > 0 THEN <<L>> ELSE <<>>)
    ELSE LineOrder(L, last - 1) \o (IF L - last > 0 THEN <<L - last>> ELSE <<>>)
                               \o (IF L + last > 0 THEN <<L + last>> ELSE <<>>)

EvidencePresent ==
    /\ own.context.evidenceFile \notin {Undefined, <<>>}
    /\ own.context.evidenceLine \notin {Undefined, <<>>}

\* the lookups run over the lines of order, one after the other, up to the
\* first that names an author, and that author is the owner assigned
BlameFollows(order) ==
    LET blame == own.env.blame
        Answer(i) == IF order[i] \in DOMAIN blame THEN blame[order[i]] ELSE GitThrows
        stops == {i \in DOMAIN order : Answer(i) \notin {GitThrows, GitEmpty}}
        first == CHOOSE i \in stops : \A j \in stops : i <= j
    IN  /\ blameLookups(own.context, own.cfg.blame_depth, blame)
             = IF stops = {} THEN order ELSE SubSeq(order, 1, first)
        /\ IF stops = {} THEN ~(own.out.kind = "returned" /\ own.out.source = "blame")
           ELSE IF Answer(first) = GitHangs THEN own.out.kind = "blocked"
           ELSE /\ own.out.kind = "returned"
                /\ own.out.source = "blame"
                /\ own.out.owner = Answer(first)
                /\ own.out.reason.line = order[first]

\* C22 as stated: with the evidence file and line present and blame depth
\* d > 0, the blame lookups run over L, then L-k and L+k for k = 1..d, and
\* the first that names an author decides the owner; otherwise there is no
\* lookup.
C22_StatedOrder ==
    BlameTierReached =>
        LET L == IF EvidencePresent THEN parseLineNumber(own.context.evidenceLine) ELSE 0
            d == own.cfg.blame_depth
        IN  BlameFollows(IF EvidencePresent /\ d > 0 THEN LineOrder(L, d) ELSE <<>>)

\* C22 (amended): with the evidence file present, a positive line number L
\* in the evidence line and blame depth d > 0, the blame lookups run over L,
\* then L-k and L+k for k = 1..d-1, and the first that names an author
\* decides the owner; otherwise there is no lookup.
C22_CodeOrder ==
    BlameTierReached =>
        LET L == IF EvidencePresent THEN parseLineNumber(own.context.evidenceLine) ELSE 0
            d == own.cfg.blame_depth
        IN  BlameFollows(IF EvidencePresent /\ L > 0 /\ d > 0 THEN LineOrder(L, d - 1) ELSE <<>>)

\* C22 witness: depth 2 on evidence line 2, no author on lines 2 and 1, and
\* the author of line 3 is assigned after the three lookups 2, 1, 3
C22_Witness ==
    /\ BlameTierReached
    /\ own.cfg.blame_depth = 2
    /\ blameLookups(own.context, own.cfg.blame_depth, own.env.blame) = <<2, 1, 3>>
    /\ own.env.blame[1] = GitEmpty
    /\ own.out.kind = "returned"
    /\ own.out.source = "blame"
    /\ own.out.reason.line = 3

(***************************************************************************)
(* SpecGlob: codeownersPatternToRegExp compiled on a pattern and the       *)
(* regular expression tested on a path, both drawn from bounded sets.      *)
(***************************************************************************)
MaxGlobLen == 3     \* patterns of 1..MaxGlobLen, paths of 0..MaxGlobLen + 1 characters

GlobChars == {"a", "/", "*", "?", "."}
GlobPathChars == {"a", "/", "."}

GlobPatterns == UNION {[1..n -> GlobChars] : n \in 1..MaxGlobLen}
GlobPaths == UNION {[1..n -> GlobPathChars] : n \in 0..(MaxGlobLen + 1)}

GlobInit ==
    /\ own \in [pattern : GlobPatterns, file : GlobPaths, out : {[kind |-> "pending"]}]
    /\ LedgerIdle
    /\ RouteIdle
    /\ FingerprintIdle
    /\ TriageIdle
    /\ RunIdle
    /\ CollectorIdle
    /\ AgentIdle

GlobTest ==
    /\ own.out.kind = "pending"
    /\ own' = [own EXCEPT !.out =
                  [kind |-> "tested",
                   accepts |-> RegExpTest(codeownersPatternToRegExp(own.pattern), own.file)]]
    /\ UNCHANGED <<ledgerVars, routeVars, fpVars, triageVars, runVars, colVars, agentVars>>

GlobNext == GlobTest

SpecGlob == GlobInit /\ [][GlobNext]_vars

\* the glob rules, read off the pattern itself: p[i..] takes t[j..] to the
\* end of t, or to any place of t when the pattern stands for a subtree
RECURSIVE GlobTakes(_, _, _, _, _)
GlobTakes(p, i, t, j, subtree) ==
    IF i > Len(p) THEN subtree \/ j > Len(t)
    ELSE IF p[i] = "*" /\ i < Len(p) /\ p[i + 1] = "*"
    THEN \E k \in j..(Len(t) + 1) : GlobTakes(p, i + 2, t, k, subtree)
    ELSE IF p[i] = "*"
    THEN \E k \in j..(Len(t) + 1) :
            /\ \A m \in j..(k - 1) : t[m] # "/"
            /\ GlobTakes(p, i + 1, t, k, subtree)
    ELSE IF p[i] = "?"
    THEN j <= Len(t) /\ GlobTakes(p, i + 1, t, j + 1, subtree)
    ELSE j <= Len(t) /\ t[j] = p[i] /\ GlobTakes(p, i + 1, t, j + 1, subtree)

GlobAccepts(pattern, path) ==
    LET rooted == pattern[1] = "/"
        core == Drop(pattern, RunLength(pattern, {"/"}))
        subtree == core # <<>> /\ core[Len(core)] = "/"
        starts == IF rooted THEN {1}
                  ELSE {1} \cup {k + 1 : k \in {m \in DOMAIN path : path[m] = "/"}}
    IN  \E start \in starts : GlobTakes(core, 1, path, start, subtree)

\* C23: the compiled matcher accepts a path exactly when the glob rules do:
\* a leading "/" ties the match to the path root, without it the match may
\* start after any "/"; a trailing "/" takes the whole subtree; "**" runs
\* across "/", "*" over characters other than "/", "?" over one character,
\* every other character stands for itself, and the match ends at the end
\* of the path.
C23_GlobRules ==
    own.out.kind = "tested" => (own.out.accepts <=> GlobAccepts(own.pattern, own.file))

\* C23 witness: the rooted pattern /a. is refused on a/a. , which it takes
\* at the second segment only, and the dot is refused on the letter
C23_Witness ==
    /\ own.out.kind = "tested"
    /\ own.pattern = <<"/", "a", ".">>
    /\ own.file = <<"a", "/", "a", ".">>
    /\ ~own.out.accepts

(***************************************************************************)
(* SpecCollector: the window score and the excerpt                         *)
(***************************************************************************)
\* the places of a line where a keyword starts, whatever the case
KeywordStarts(text) ==
    LET lower == ToLowerCase(text)
        starts(l) ==
            {p \in DOMAIN l :
                /\ l[p] \in {"e", "f", "t", "p"}
                /\ \E k \in DOMAIN Keywords :
                      /\ p + Len(Keywords[k]) - 1 <= Len(l)
                      /\ SubSeq(l, p, p + Len(Keywords[k]) - 1) = Keywords[k]}
    IN  With(lower, starts)

\* 1 + the keyword occurrences of the lines index - before .. index + after
WindowScore(lines, index, before, after) ==
    1 + Cardinality(UNION {{<<n, p>> : p \in KeywordStarts(lines[n])} :
                              n \in {m \in DOMAIN lines :
                                        index - before <= m /\ m <= index + after}})

\* C24 as stated: the score of a matching line is 1 + the keyword
\* occurrences of the lines from 2 before through 3 after it.
C24_StatedWindow ==
    col.evidence # [found |-> FALSE, pending |-> TRUE] =>
        LET matches == CollectMatches(col.lines, 1)
        IN  /\ \A k \in DOMAIN matches :
                  matches[k].score = WindowScore(col.lines, matches[k].index, 2, 3)
            /\ col.evidence.found =>
                  col.evidence.score = WindowScore(col.lines, col.evidence.index, 2, 3)

\* C24 (amended): the score of a matching line is 1 + the keyword
\* occurrences of the lines from 2 before through 2 after it.
C24_CodeWindow ==
    col.evidence # [found |-> FALSE, pending |-> TRUE] =>
        LET matches == CollectMatches(col.lines, 1)
        IN  /\ \A k \in DOMAIN matches :
                  matches[k].score = WindowScore(col.lines, matches[k].index, 2, 2)
            /\ col.evidence.found =>
                  col.evidence.score = WindowScore(col.lines, col.evidence.index, 2, 2)

\* C24 witness: the match is on the first of four lines, the Error: line is
\* the third after it and stays out of the score
C24_Witness ==
    /\ col.lines = <<AppLine, QuietLine, QuietLine, ErrorLine>>
    /\ col.evidence.found
    /\ col.evidence.index = 1
    /\ col.evidence.score = 1

\* first..last of the log, clamped to it
LinesBetween(lines, first, last) ==
    SubSeq(lines, IF first < 1 THEN 1 ELSE first, IF last > Len(lines) THEN Len(lines) ELSE last)

\* C25: with a match selected, the excerpt is the lines from 5 before through
\* 6 after the line the selected match is on, clamped to the log, and holds
\* that line; with no match it is the last 10 lines and there is no file or
\* line; job and step are the first failed job and its first failed step.
C25_ExcerptAroundMatch ==
    col.evidence # [found |-> FALSE, pending |-> TRUE] =>
        LET e == col.evidence
            jobs == col.failedJobs
        IN  /\ e.found =>
                 /\ e.excerpt = LinesBetween(col.lines, e.index - 5, e.index + 6)
                 /\ \E k \in DOMAIN e.excerpt : e.excerpt[k] = col.lines[e.index]
            /\ ~e.found =>
                 e.excerpt = LinesBetween(col.lines, Len(col.lines) - 9, Len(col.lines))
            /\ e.job = IF jobs = <<>> THEN Undefined ELSE jobs[1].jobName
            /\ e.step = IF jobs = <<>> \/ jobs[1].failedSteps = <<>> THEN Undefined
                        ELSE jobs[1].failedSteps[1].stepName

(***************************************************************************)
(* SpecLedger: what each operation may change                              *)
(***************************************************************************)
\* C26: pruneExpiredSignatures and shouldAttemptSignature only remove
\* records, a record they leave is unchanged in every field; the attempts of
\* a record changes only in updateSignatureLedger for its fingerprint and
\* never decreases while the record is in the ledger; the ledger holds each
\* record under its own fingerprint, so at most one per fingerprint.
C26_OnlyUpdateCounts ==
    [][/\ ret'.op \in {"prune", "shouldAttempt"} =>
             /\ DOMAIN ledger' \subseteq DOMAIN ledger
             /\ \A s \in DOMAIN ledger' : ledger'[s] = ledger[s]
       /\ \A s \in DOMAIN ledger \cap DOMAIN ledger' :
             /\ ledger'[s].attempts >= ledger[s].attempts
             /\ ledger'[s].attempts # ledger[s].attempts =>
                   ret'.op = "update" /\ ret'.sig = s
       /\ \A s \in DOMAIN ledger' : ledger'[s].signature = s]_vars

\* C26 witness: a pruning has removed a record and left another one
C26_Witness ==
    /\ ret.op = "prune"
    /\ DOMAIN ledger # {}
    /\ DOMAIN ledger # DOMAIN ret.before
    /\ \A s \in DOMAIN ledger : ledger[s] = ret.before[s]

(***************************************************************************)
(* SpecAgent: the fix attempt of runTriageAgent, src/agent/orchestrator.ts *)
(* A diff is kept as what the validators read off it: the number of lines  *)
(* starting with + or -, whether a forbidden pattern and whether a secret  *)
(* pattern matches it, the files of its +++ lines, and whether it deletes  *)
(* or renames a file.                                                      *)
(***************************************************************************)
MaxRetries == 2     \* behavior.max_retries runs over 0..MaxRetries

SrcAppFile == "src/app.ts"
Diff(changedLines, forbidden, secret, files, hasDeletions, hasRenames) ==
    [changedLines |-> changedLines, forbidden |-> forbidden, secret |-> secret,
     files |-> files, hasDeletions |-> hasDeletions, hasRenames |-> hasRenames]

EmptyDiff == Diff(0, FALSE, FALSE, {}, FALSE, FALSE)

\* the diffs the working tree can show after the model has written files:
\* a small fix, nothing, too many lines, a lockfile, a secret, a file that
\* is not allowed (written before the run, or by another process), a
\* deletion, a rename
Diffs ==
    {Diff(1, FALSE, FALSE, {SrcAppFile}, FALSE, FALSE),
     EmptyDiff,
     Diff(3, FALSE, FALSE, {SrcAppFile}, FALSE, FALSE),
     Diff(1, TRUE, FALSE, {"package-lock.json"}, FALSE, FALSE),
     Diff(1, FALSE, TRUE, {SrcAppFile}, FALSE, FALSE),
     Diff(1, FALSE, FALSE, {SrcAppFile, "src/other.ts"}, FALSE, FALSE),
     Diff(1, FALSE, FALSE, {}, TRUE, FALSE),
     Diff(1, FALSE, FALSE, {SrcAppFile}, FALSE, TRUE)}

\* validatePatch(diff, maxLines, forbiddenPatterns), src/agent/verifier.ts
validatePatch(diff, maxLines) ==
    IF diff.changedLines > maxLines THEN FALSE
    ELSE IF diff.forbidden THEN FALSE
    ELSE ~diff.secret

\* validateDiffFiles(diff, allowedFiles)
validateDiffFiles(diff, allowedFiles) ==
    IF diff.hasDeletions THEN FALSE
    ELSE IF diff.hasRenames THEN FALSE
    ELSE IF diff.files = {} THEN TRUE
    ELSE IF allowedFiles = {} THEN FALSE
    ELSE diff.files \subseteq allowedFiles

UnknownCommand == <<"u", "n", "k", "n", "o", "w", "n">>

AgentConfigs ==
    [max_diff_lines : {2}, allowed_commands : {<<NpmTest, NpmRunLint>>},
     max_retries : 0..MaxRetries, require_verification : BOOLEAN]

AgentContexts ==
    [routingDecision : RoutingDecision \cup {"escalate"},
     failedCommand : {NpmTest, <<"r", "m", " ", "-", "r", "f", " ", "/">>, UnknownCommand, <<>>},
     allowedFiles : {{SrcAppFile}, {}}]

NotVerified == [ran |-> FALSE]
NoVerification == [passed |-> FALSE, ran |-> Null]

AgentInit ==
    /\ \E context \in AgentContexts, cfg \in AgentConfigs :
          /\ context.routingDecision # "fix_attempt" =>
                context.failedCommand = NpmTest /\ context.allowedFiles = {SrcAppFile}
                /\ cfg.max_retries = 0 /\ cfg.require_verification
          /\ agent = [pc |-> "start", context |-> context, cfg |-> cfg,
                      patchDiff |-> EmptyDiff, verificationResult |-> NoVerification,
                      attempt |-> 0, verified |-> NotVerified,
                      result |-> [success |-> FALSE, patchDiff |-> EmptyDiff]]
    /\ LedgerIdle
    /\ RouteIdle
    /\ FingerprintIdle
    /\ OwnerIdle
    /\ TriageIdle
    /\ RunIdle
    /\ CollectorIdle

AgentReturn(success, patchDiff) ==
    agent' = [agent EXCEPT !.pc = "returned",
                           !.result = [success |-> success, patchDiff |-> patchDiff]]

AgentOthers ==
    UNCHANGED <<ledgerVars, routeVars, fpVars, ownerVars, triageVars, runVars, colVars>>

\* report_only, flake_workflow, escalate: no fix is attempted
AgentNoFix ==
    /\ agent.pc = "start"
    /\ agent.context.routingDecision # "fix_attempt"
    /\ AgentReturn(FALSE, EmptyDiff)
    /\ AgentOthers

\* Phase 1: runDiagnosis; diagnosis.canFix
AgentDiagnose(canFix) ==
    /\ agent.pc = "start"
    /\ agent.context.routingDecision = "fix_attempt"
    /\ IF canFix THEN agent' = [agent EXCEPT !.pc = "generateFix"]
       ELSE AgentReturn(FALSE, EmptyDiff)
    /\ AgentOthers

\* Phase 2: generateFix, getCurrentDiff, validatePatch, validateDiffFiles,
\* and the test on context.failedCommand that opens phase 3
AgentGenerateFix(diff) ==
    /\ agent.pc = "generateFix"
    /\ IF ~validatePatch(diff, agent.cfg.max_diff_lines) THEN AgentReturn(FALSE, EmptyDiff)
       ELSE IF ~validateDiffFiles(diff, agent.context.allowedFiles)
       THEN AgentReturn(FALSE, EmptyDiff)
       ELSE IF agent.context.failedCommand \in {<<>>, UnknownCommand}
       THEN agent' = [agent EXCEPT !.pc = "returned", !.patchDiff = diff,
                                   !.result = [success |-> FALSE, patchDiff |-> diff]]
       ELSE agent' = [agent EXCEPT !.pc = "verifyFix", !.patchDiff = diff]
    /\ AgentOthers

\* Phase 3: the first verifyFix; the retry loop is entered when it did not
\* pass and max_retries > 0
AgentVerify(exec) ==
    /\ agent.pc = "verifyFix"
    /\ LET verificationResult ==
               verifyFix(agent.context.failedCommand, agent.cfg.allowed_commands, exec)
       IN  agent' = [agent EXCEPT
                        !.verificationResult = [passed |-> verificationResult.passed,
                                                ran |-> verificationResult.ran],
                        !.verified = [ran |-> TRUE, diff |-> agent.patchDiff,
                                      passed |-> verificationResult.passed],
                        !.attempt = 1,
                        !.pc = IF ~verificationResult.passed /\ agent.cfg.max_retries > 0
                               THEN "retry" ELSE "verified"]
    /\ AgentOthers

\* one turn of the retry loop: retryFix, patchDiff = getCurrentDiff(), the
\* two validations (continue when one fails), verifyFix, break when it passed
AgentRetry(diff, exec) ==
    /\ agent.pc = "retry"
    /\ LET valid == /\ validatePatch(diff, agent.cfg.max_diff_lines)
                    /\ validateDiffFiles(diff, agent.context.allowedFiles)
           verificationResult ==
               verifyFix(agent.context.failedCommand, agent.cfg.allowed_commands, exec)
           last == agent.attempt + 1 > agent.cfg.max_retries
       IN  IF ~valid
           THEN /\ exec.kind = "returns"
                /\ agent' = [agent EXCEPT !.patchDiff = diff,
                                          !.attempt = agent.attempt + 1,
                                          !.pc = IF last THEN "verified" ELSE "retry"]
           ELSE agent' = [agent EXCEPT
                            !.patchDiff = diff,
                            !.verificationResult = [passed |-> verificationResult.passed,
                                                    ran |-> verificationResult.ran],
                            !.verified = [ran |-> TRUE, diff |-> diff,
                                          passed |-> verificationResult.passed],
                            !.attempt = agent.attempt + 1,
                            !.pc = IF verificationResult.passed \/ last
                                   THEN "verified" ELSE "retry"]
    /\ AgentOthers

\* after the loop: the failure return under require_verification, else
\* Phase 4 (generateRCA) and the success return
AgentFinish ==
    /\ agent.pc = "verified"
    /\ IF ~agent.verificationResult.passed /\ agent.cfg.require_verification
       THEN AgentReturn(FALSE, agent.patchDiff)
       ELSE AgentReturn(TRUE, agent.patchDiff)
    /\ AgentOthers

\* an await of the try block rejects (the OpenAI call fails): the catch
\* returns success false
AgentThrows ==
    /\ agent.pc \in {"generateFix", "retry", "verified"}
    /\ AgentReturn(FALSE, EmptyDiff)
    /\ AgentOthers

AgentNext ==
    \/ AgentNoFix
    \/ \E canFix \in BOOLEAN : AgentDiagnose(canFix)
    \/ \E diff \in Diffs : AgentGenerateFix(diff)
    \/ \E exec \in ExecOutcomes : AgentVerify(exec)
    \/ \E diff \in Diffs, exec \in ExecOutcomes : AgentRetry(diff, exec)
    \/ AgentFinish
    \/ AgentThrows

SpecAgent == AgentInit /\ [][AgentNext]_vars

\* C27: a result with success = true carries a patchDiff that passes
\* validatePatch and validateDiffFiles, whatever max_retries and
\* require_verification are; and under require_verification the last
\* verifyFix ran on that patch and passed.
C27_SuccessIsValidated ==
    agent.pc = "returned" /\ agent.result.success =>
        /\ validatePatch(agent.result.patchDiff, agent.cfg.max_diff_lines)
        /\ validateDiffFiles(agent.result.patchDiff, agent.context.allowedFiles)
        /\ agent.cfg.require_verification =>
              agent.verified = [ran |-> TRUE, diff |-> agent.result.patchDiff, passed |-> TRUE]

(***************************************************************************)
(* SpecOwner: the team-map tier                                            *)
(***************************************************************************)
\* C28: the team-map tier maps a candidate file by a configured prefix only
\* on a directory boundary: when it is the deciding tier, it assigns an owner
\* exactly when some candidate file lies inside the directory of some
\* configured prefix, and the prefix it reports is the directory of a
\* candidate file, never a mere beginning of its path.
C28_DirectoryBoundary ==
    (/\ own.out.kind = "returned"
     /\ ~CodeownersTier.found
     /\ ~BlameTier.found) =>
       /\ own.out.source = "team_map" <=> DirectoryMatches # {}
       /\ own.out.source = "team_map" =>
             \E k \in DOMAIN OwnerCandidates :
                 StartsWith(OwnerCandidates[k], own.out.reason.prefix \o <<"/">>)
(***************************************************************************)
(* SpecClock: triage invocations made one after the other for one          *)
(* fingerprint, with days passing between them.                            *)
(***************************************************************************)
\* the ledger file before the first invocation: none, or one holding a
\* record of the fingerprint
ClockDisks ==
    {MissingFile}
    \cup {Document(l) : l \in {il \in InitLedgers :
                                 /\ DOMAIN il = {TriageSig}
                                 /\ il[TriageSig].lastSeen = 0
                                 /\ il[TriageSig].lastOwner = NoVal}}

ClockInit ==
    /\ \E disk \in ClockDisks, cfg \in Configs, context \in RunContexts :
          run = Fresh([disk |-> disk, cfg |-> cfg, now |-> 0, context |-> context,
                       pc |-> NoVal, calls |-> NoVal, routingDecision |-> NoVal,
                       ledger |-> NoVal, isMap |-> NoVal, allowed |-> NoVal,
                       outcome |-> NoVal, resolution |-> NoVal,
                       start |-> NoVal, abandoned |-> NoVal,
                       runs |-> 1, passes |-> 0, pruned |-> FALSE, killed |-> FALSE,
                       blocks |-> 0, invoked |-> NaN])
    /\ LedgerIdle
    /\ RouteIdle
    /\ FingerprintIdle
    /\ OwnerIdle
    /\ TriageIdle
    /\ CollectorIdle
    /\ AgentIdle

\* a day passes before the next invocation starts
RunTick ==
    /\ run.pc = TriageSteps[1]
    /\ run.now < MaxTime
    /\ RunStep([run EXCEPT !.now = @ + 1])

ClockNext ==
    \/ RunBuildFailureContext
    \/ RunRouteFailure
    \/ RunComputeSignature
    \/ RunResolveOwner
    \/ RunLoad
    \/ RunGate
    \/ \E result \in UNION {runTriageAgent(d) : d \in RoutingDecision} : RunAgentCall(result)
    \/ RunUpdate
    \/ RunSave
    \/ RunAbandon
    \/ RunAgain
    \/ RunTick

SpecClock == ClockInit /\ [][ClockNext]_vars

\* the gate of the running invocation removes the fingerprint's record
GatePrunes ==
    /\ run.pc = "shouldAttemptSignature"
    /\ run'.pc # run.pc
    /\ ~run'.abandoned
    /\ TriageSig \in DOMAIN run.ledger
    /\ TriageSig \notin DOMAIN run'.ledger

PairSig == [i \in Invocations |-> IF i = 1 THEN "sigA" ELSE "sigB"]

\* attempts of fingerprint sig as an invocation starting at t finds it after
\* pruning
FoundFor(sig, disk, cfg, t) ==
    LET l == pruneExpiredSignatures(loadSignatureLedger(disk).records, cfg.ttl_days, t)
    IN  IF sig \in DOMAIN l THEN l[sig].attempts ELSE 0

PairInit ==
    /\ \E disk \in TriageDisks, cfg \in Configs, owner \in [Invocations -> Owners] :
          triage = [disk |-> disk, cfg |-> cfg, now |-> MaxTime, owner |-> owner,
                    proc |-> [i \in Invocations |-> NotStarted],
                    base |-> AttemptsFound(disk, cfg, MaxTime),
                    overlapped |-> FALSE,
                    sig |-> PairSig,
                    found |-> [i \in Invocations |->
                                 FoundFor(PairSig[i], disk, cfg, MaxTime)]]
    /\ LedgerIdle
    /\ RouteIdle
    /\ FingerprintIdle
    /\ OwnerIdle
    /\ RunIdle
    /\ CollectorIdle
    /\ AgentIdle

SpecPair == PairInit /\ [][TriageNext]_vars

\* the file holds the update of invocation i
Persisted(i) ==
    /\ triage.disk.kind = "document"
    /\ triage.sig[i] \in DOMAIN triage.disk.records
    /\ triage.disk.records[triage.sig[i]].attempts = triage.found[i] + 1
    /\ triage.disk.records[triage.sig[i]].lastOutcome = triage.proc[i].outcome

\* the file holds the fingerprint of invocation i as it was found: no
\* record, or a record with the attempts it had
AsFound(i) ==
    /\ triage.disk.kind = "document"
    /\ IF triage.found[i] = 0
       THEN triage.sig[i] \notin DOMAIN triage.disk.records
       ELSE /\ triage.sig[i] \in DOMAIN triage.disk.records
            /\ triage.disk.records[triage.sig[i]].attempts = triage.found[i]

\* C30 as stated: whatever the interleaving of two invocations with
\* different fingerprints, once both have saved the file holds the update of
\* each (both records, each with its attempts incremented).
C30_NoInterference ==
    AllDone => \A i \in Invocations : Persisted(i)

\* C30 as the code has it: once both invocations have saved, the file holds
\* the update of each when one saved before the other loaded; when both
\* loaded before either saved, it holds the update of one (the last to
\* save) and the other's fingerprint as it was found, its update lost.
C30_LastSaveWins ==
    AllDone =>
       /\ ~triage.overlapped => \A i \in Invocations : Persisted(i)
       /\ triage.overlapped =>
             \E i \in Invocations :
                /\ Persisted(i)
                /\ \A j \in Invocations \ {i} : AsFound(j)

\* both invocations loaded before either saved, both have saved, and a
\* record that was on file has lost its update
C30_Witness ==
    /\ AllDone
    /\ triage.overlapped
    /\ triage.sig[1] # triage.sig[2]
    /\ \E i \in Invocations :
          /\ Persisted(i)
          /\ \E j \in Invocations \ {i} : triage.found[j] >= 1 /\ AsFound(j)

====
